---- MODULE Spec2Model ----
(***************************************************************************)
(* TaskBox chatbot backend: the message parser (src/utils/message_parser), *)
(* the chat orchestrator (src/services/chat_service), the todo storage     *)
(* service (src/services/todo_service) and the chat endpoints              *)
(* (src/api/chat).  Messages are real strings; the regular expressions of  *)
(* the parser are interpreted character by character with the priority     *)
(* order of a backtracking matcher.                                        *)
(***************************************************************************)
EXTENDS Integers, Sequences, FiniteSets, TLC

(***************************************************************************)
(* Python string methods used by the parser and the orchestrator.          *)
(***************************************************************************)
UpperChars == "ABCDEFGHIJKLMNOPQRSTUVWXYZ"

LowerChars == "abcdefghijklmnopqrstuvwxyz"

CharAt(s, i) == SubSeq(s, i, i)

\* the upper-case letters and their lower-case forms
LowerTable ==
  [c \in {CharAt(UpperChars, i) : i \in 1..26} |->
     CharAt(LowerChars, CHOOSE i \in 1..26 : CharAt(UpperChars, i) = c)]

\* the lower-case letters and their upper-case forms
UpperTable ==
  [c \in {CharAt(LowerChars, i) : i \in 1..26} |->
     CharAt(UpperChars, CHOOSE i \in 1..26 : CharAt(LowerChars, i) = c)]

\* c.lower() for one character
LowerChar(c) == IF c \in DOMAIN LowerTable THEN LowerTable[c] ELSE c

\* c.upper() for one character
UpperChar(c) == IF c \in DOMAIN UpperTable THEN UpperTable[c] ELSE c

RECURSIVE Lower(_)
\* str.lower()
Lower(s) == IF Len(s) = 0 THEN "" ELSE LowerChar(CharAt(s, 1)) \o Lower(Tail(s))

\* str.capitalize(): first character upper-cased, the rest lower-cased
Capitalize(s) == IF Len(s) = 0 THEN "" ELSE UpperChar(CharAt(s, 1)) \o Lower(Tail(s))

\* the whitespace class of str.strip(), str.split() and the regex \s
IsSpace(c) == c = " "

RECURSIVE LStripSet(_, _)
LStripSet(s, chars) ==
  IF Len(s) > 0 /\ CharAt(s, 1) \in chars THEN LStripSet(Tail(s), chars) ELSE s

RECURSIVE RStripSet(_, _)
RStripSet(s, chars) ==
  IF Len(s) > 0 /\ CharAt(s, Len(s)) \in chars
  THEN RStripSet(SubSeq(s, 1, Len(s) - 1), chars) ELSE s

\* str.strip()
Strip(s) == RStripSet(LStripSet(s, {" "}), {" "})

\* str.strip("'\"")
StripQuotes(s) == RStripSet(LStripSet(s, {"'", "\""}), {"'", "\""})

\* the Python test `needle in hay` on strings
Contains(hay, needle) ==
  \E i \in 1..(Len(hay) - Len(needle) + 1) :
     SubSeq(hay, i, i + Len(needle) - 1) = needle

RECURSIVE SplitFrom(_, _, _)
\* str.split(): the whitespace-separated words of s, from position i on, cur
\* being the word read so far
SplitFrom(s, i, cur) ==
  IF i > Len(s) THEN (IF cur = "" THEN <<>> ELSE <<cur>>)
  ELSE IF IsSpace(CharAt(s, i))
       THEN (IF cur = "" THEN <<>> ELSE <<cur>>) \o SplitFrom(s, i + 1, "")
       ELSE SplitFrom(s, i + 1, cur \o CharAt(s, i))

Split(s) == SplitFrom(s, 1, "")

RECURSIVE Join(_)
\* " ".join(words)
Join(words) ==
  IF Len(words) = 0 THEN ""
  ELSE IF Len(words) = 1 THEN words[1]
  ELSE words[1] \o " " \o Join(Tail(words))

(***************************************************************************)
(* Regular expressions.  A pattern is a tree; MatchRe gives, for a partial *)
(* match m = [pos, groups], every way the pattern can match at m.pos, in   *)
(* the order in which a backtracking matcher tries them, so that the first *)
(* element of the result is the match re.search reports.                   *)
(***************************************************************************)
Lit(v) == [t |-> "lit", v |-> v, sub |-> <<>>]

Cat(items) == [t |-> "cat", v |-> "", sub |-> items]

Alt(alts) == [t |-> "alt", v |-> "", sub |-> alts]

\* ( ... ) capturing group
Cap(r) == [t |-> "cap", v |-> "", sub |-> <<r>>]

\* (?: ... )? greedy optional
Opt(r) == [t |-> "opt", v |-> "", sub |-> <<r>>]

\* \s+
Ws == [t |-> "ws+", v |-> "", sub |-> <<>>]

\* .+? (lazy)
AnyLazy == [t |-> "any+?", v |-> "", sub |-> <<>>]

\* .+ (greedy)
AnyGreedy == [t |-> "any+", v |-> "", sub |-> <<>>]

\* .* (greedy)
AnyStar == [t |-> "any*", v |-> "", sub |-> <<>>]

RECURSIVE WsRun(_, _)
\* number of consecutive whitespace characters of s from position i
WsRun(s, i) == IF i <= Len(s) /\ IsSpace(CharAt(s, i)) THEN 1 + WsRun(s, i + 1) ELSE 0

RECURSIVE MatchRe(_, _, _)
RECURSIVE MatchCat(_, _, _, _)
RECURSIVE MatchAlt(_, _, _, _)
RECURSIVE MatchEach(_, _, _, _)

MatchRe(re, s, m) ==
  LET rest == Len(s) - m.pos + 1
  IN CASE re.t = "lit" ->
            IF m.pos + Len(re.v) - 1 <= Len(s)
               /\ SubSeq(s, m.pos, m.pos + Len(re.v) - 1) = re.v
            THEN <<[m EXCEPT !.pos = @ + Len(re.v)]>>
            ELSE <<>>
       [] re.t = "ws+" ->
            LET k == WsRun(s, m.pos)
            IN [i \in 1..k |-> [m EXCEPT !.pos = m.pos + (k - i + 1)]]
       [] re.t = "any+?" -> [i \in 1..rest |-> [m EXCEPT !.pos = m.pos + i]]
       [] re.t = "any+" -> [i \in 1..rest |-> [m EXCEPT !.pos = m.pos + (rest - i + 1)]]
       [] re.t = "any*" -> [i \in 1..(rest + 1) |-> [m EXCEPT !.pos = m.pos + (rest + 1 - i)]]
       [] re.t = "cat" -> MatchCat(re.sub, 1, s, <<m>>)
       [] re.t = "alt" -> MatchAlt(re.sub, 1, s, m)
       [] re.t = "opt" -> MatchRe(re.sub[1], s, m) \o <<m>>
       [] re.t = "cap" ->
            LET r == MatchRe(re.sub[1], s, m)
            IN [i \in 1..Len(r) |->
                  [r[i] EXCEPT !.groups = Append(@, SubSeq(s, m.pos, r[i].pos - 1))]]

\* items[k..] matched one after the other from each partial match of ms
MatchCat(items, k, s, ms) ==
  IF k > Len(items) \/ Len(ms) = 0 THEN ms
  ELSE MatchCat(items, k + 1, s, MatchEach(items[k], s, ms, 1))

\* the matches of re continued from ms[j], ms[j+1], ..., in that order
MatchEach(re, s, ms, j) ==
  IF j > Len(ms) THEN <<>>
  ELSE MatchRe(re, s, ms[j]) \o MatchEach(re, s, ms, j + 1)

\* a|b|c: the alternatives in their written order
MatchAlt(alts, k, s, m) ==
  IF k > Len(alts) THEN <<>>
  ELSE MatchRe(alts[k], s, m) \o MatchAlt(alts, k + 1, s, m)

RECURSIVE SearchFrom(_, _, _)
\* re.search from start position i: the leftmost match, <<>> when none
SearchFrom(re, s, i) ==
  IF i > Len(s) + 1 THEN <<>>
  ELSE LET r == MatchRe(re, s, [pos |-> i, groups |-> <<>>])
       IN IF Len(r) > 0 THEN <<r[1]>> ELSE SearchFrom(re, s, i + 1)

\* re.search(pattern, s): <<match>> or <<>>
Search(re, s) == SearchFrom(re, s, 1)

(***************************************************************************)
(* MessageParser.__init__: the pattern lists, in their written order.      *)
(***************************************************************************)
CreateVerb == Cap(Alt(<<Lit("add"), Lit("create"), Lit("make"), Lit("new")>>))

\* (?:a\s+|an\s+|the\s+)?
OptArticle == Opt(Alt(<<Cat(<<Lit("a"), Ws>>), Cat(<<Lit("an"), Ws>>), Cat(<<Lit("the"), Ws>>)>>))

\* (?:the\s+)?
OptThe == Opt(Cat(<<Lit("the"), Ws>>))

\* (?:my\s+)?
OptMy == Opt(Cat(<<Lit("my"), Ws>>))

create_patterns ==
  << Cat(<<CreateVerb, Ws, OptArticle, Cap(AnyLazy), Ws, Lit("to"), Ws, Lit("my"), Ws, Lit("list")>>),
     Cat(<<CreateVerb, Ws, OptArticle, Cap(AnyLazy), Ws,
           Opt(Cat(<<Lit("to"), Ws, Lit("my"), Ws>>)),
           Alt(<<Lit("task"), Lit("todo"), Lit("to-do")>>), Ws, Lit("list")>>),
     Cat(<<CreateVerb, Ws, Cap(AnyGreedy)>>),
     Cat(<<Lit("i"), Ws, Lit("need"), Ws, Lit("to"), Ws, Cap(AnyGreedy)>>),
     Cat(<<Lit("don"), Opt(Lit("'")), Lit("t"), Ws, Lit("forget"), Ws, Lit("to"), Ws, Cap(AnyGreedy)>>),
     Cat(<<Lit("remind"), Ws, Lit("me"), Ws, Lit("to"), Ws, Cap(AnyGreedy)>>) >>

read_patterns ==
  << Cat(<<Cap(Alt(<<Lit("show"), Lit("display"), Lit("list"), Lit("view"), Lit("see"),
                    Cat(<<Lit("what"), AnyStar, Lit("have")>>),
                    Cat(<<Lit("what"), AnyStar, Lit("got")>>)>>)),
           Ws, OptMy,
           Alt(<<Lit("tasks"), Lit("todos"), Lit("to-dos"), Lit("list"), Lit("task")>>)>>),
     Cat(<<Cap(Alt(<<Lit("what"), Lit("which")>>)), Ws,
           Alt(<<Lit("tasks"), Lit("todos"), Lit("to-dos")>>), Ws,
           Alt(<<Cat(<<Lit("do"), Ws, Lit("i"), Ws, Lit("have")>>),
                 Cat(<<Lit("are"), Ws, Lit("on"), Ws, Lit("my"), Ws, Lit("list")>>)>>)>>),
     Cat(<<Lit("my"), Ws, Opt(Cat(<<Lit("current"), Ws>>)),
           Alt(<<Lit("tasks"), Lit("todos"), Lit("to-dos")>>)>>),
     Cat(<<Lit("help"), Ws, Lit("me"), Ws, Lit("organize")>>),
     Cat(<<Lit("what"), Ws, Lit("should"), Ws, Lit("i"), Ws, Lit("do")>>),
     Cat(<<Lit("show"), Ws, OptMy, Lit("tasks")>>),
     Cat(<<Lit("list"), Ws, OptMy, Lit("tasks")>>) >>

complete_patterns ==
  << Cat(<<Cap(Alt(<<Lit("complete"), Lit("finish"), Lit("done"), Lit("completed"), Lit("finished")>>)),
           Ws, OptThe, Cap(AnyLazy)>>),
     Cat(<<Cap(Alt(<<Lit("mark"), Lit("set")>>)), Ws, OptThe, Cap(AnyLazy), Ws,
           Opt(Cat(<<Lit("as"), Ws>>)),
           Cap(Alt(<<Lit("complete"), Lit("done"), Lit("finished")>>))>>),
     Cat(<<Lit("i"), Ws, Opt(Cat(<<Lit("have"), Ws>>)),
           Cap(Alt(<<Lit("completed"), Lit("finished"), Lit("done")>>)), Ws, OptThe, Cap(AnyLazy)>>),
     Cat(<<Lit("cross"), Ws, OptThe, Cap(AnyLazy), Ws, Lit("off"), Ws, OptMy,
           Alt(<<Lit("list"), Lit("tasks")>>)>>) >>

update_patterns ==
  << Cat(<<Cap(Alt(<<Lit("change"), Lit("update"), Lit("edit"), Lit("modify")>>)), Ws, OptThe,
           Cap(AnyLazy), Ws, Alt(<<Lit("to"), Lit("as")>>), Ws, Cap(AnyGreedy)>>),
     Cat(<<Cap(Alt(<<Lit("update"), Lit("change"), Lit("edit"), Lit("modify")>>)), Ws, OptThe,
           Cap(AnyLazy)>>),
     Cat(<<Lit("rename"), Ws, OptThe, Cap(AnyLazy), Ws, Alt(<<Lit("to"), Lit("as")>>), Ws,
           Cap(AnyGreedy)>>) >>

DeleteVerb == Cap(Alt(<<Lit("delete"), Lit("remove"), Lit("eliminate"), Lit("get rid of")>>))

delete_patterns ==
  << Cat(<<DeleteVerb, Ws, OptThe, Cap(AnyLazy)>>),
     Cat(<<DeleteVerb, Ws, Alt(<<Lit("task"), Lit("todo"), Lit("to-do")>>), Ws,
           Alt(<<Lit("named"), Lit("called"), Lit("titled")>>), Ws, Cap(AnyLazy)>>) >>

\* `for pattern in patterns: if re.search(pattern, s)`: some pattern matches
AnyPatternMatches(patterns, s) ==
  \E k \in 1..Len(patterns) : Len(Search(patterns[k], s)) > 0

(***************************************************************************)
(* TaskAction and IntentResult.  A confidence c stands for c / 100.        *)
(***************************************************************************)
TaskAction == {"CREATE", "READ", "UPDATE", "DELETE", "COMPLETE", "NONE"}

\* an IntentResult with half the confidence it is given
IntentResult_halved(action, confidence) == [action |-> action, confidence |-> confidence \div 2]

IntentResult(action, confidence) == [action |-> action, confidence |-> confidence]

\* the keyword tests of the fallback scan, one per action
CompleteKeyword(s) == Contains(s, "complete") \/ Contains(s, "done") \/ Contains(s, "finish")

CreateKeyword(s) == Contains(s, "add") \/ Contains(s, "create") \/ Contains(s, "new")

\* the Read keyword test without "show"
ReadKeyword_without_show(s) == Contains(s, "list") \/ Contains(s, "view") \/ Contains(s, "see")

ReadKeyword(s) ==
  Contains(s, "show") \/ Contains(s, "list") \/ Contains(s, "view") \/ Contains(s, "see")

UpdateKeyword(s) == Contains(s, "update") \/ Contains(s, "edit") \/ Contains(s, "change")

DeleteKeyword(s) == Contains(s, "delete") \/ Contains(s, "remove")

\* parse_intent with the Create group tried before the Complete group
parse_intent_create_first(message) ==
  IF message = "" THEN IntentResult("NONE", 10)
  ELSE IF AnyPatternMatches(create_patterns, Strip(Lower(message))) THEN IntentResult("CREATE", 95)
  ELSE IF AnyPatternMatches(complete_patterns, Strip(Lower(message))) THEN IntentResult("COMPLETE", 95)
  ELSE IF AnyPatternMatches(read_patterns, Strip(Lower(message))) THEN IntentResult("READ", 95)
  ELSE IF AnyPatternMatches(update_patterns, Strip(Lower(message))) THEN IntentResult("UPDATE", 95)
  ELSE IF AnyPatternMatches(delete_patterns, Strip(Lower(message))) THEN IntentResult("DELETE", 95)
  ELSE IF CompleteKeyword(Strip(Lower(message))) THEN IntentResult("COMPLETE", 80)
  ELSE IF CreateKeyword(Strip(Lower(message))) THEN IntentResult("CREATE", 80)
  ELSE IF ReadKeyword(Strip(Lower(message))) THEN IntentResult("READ", 80)
  ELSE IF UpdateKeyword(Strip(Lower(message))) THEN IntentResult("UPDATE", 80)
  ELSE IF DeleteKeyword(Strip(Lower(message))) THEN IntentResult("DELETE", 80)
  ELSE IntentResult("NONE", 50)

\* parse_intent with the keyword scan run from Delete back to Complete
parse_intent_keywords_reversed(message) ==
  IF message = "" THEN IntentResult("NONE", 10)
  ELSE IF AnyPatternMatches(complete_patterns, Strip(Lower(message))) THEN IntentResult("COMPLETE", 95)
  ELSE IF AnyPatternMatches(create_patterns, Strip(Lower(message))) THEN IntentResult("CREATE", 95)
  ELSE IF AnyPatternMatches(read_patterns, Strip(Lower(message))) THEN IntentResult("READ", 95)
  ELSE IF AnyPatternMatches(update_patterns, Strip(Lower(message))) THEN IntentResult("UPDATE", 95)
  ELSE IF AnyPatternMatches(delete_patterns, Strip(Lower(message))) THEN IntentResult("DELETE", 95)
  ELSE IF DeleteKeyword(Strip(Lower(message))) THEN IntentResult("DELETE", 80)
  ELSE IF UpdateKeyword(Strip(Lower(message))) THEN IntentResult("UPDATE", 80)
  ELSE IF ReadKeyword(Strip(Lower(message))) THEN IntentResult("READ", 80)
  ELSE IF CreateKeyword(Strip(Lower(message))) THEN IntentResult("CREATE", 80)
  ELSE IF CompleteKeyword(Strip(Lower(message))) THEN IntentResult("COMPLETE", 80)
  ELSE IntentResult("NONE", 50)

\* parse_intent for the lower-cased, stripped message
Classify(message_lower) ==
  IF AnyPatternMatches(complete_patterns, message_lower) THEN IntentResult("COMPLETE", 95)
  ELSE IF AnyPatternMatches(create_patterns, message_lower) THEN IntentResult("CREATE", 95)
  ELSE IF AnyPatternMatches(read_patterns, message_lower) THEN IntentResult("READ", 95)
  ELSE IF AnyPatternMatches(update_patterns, message_lower) THEN IntentResult("UPDATE", 95)
  ELSE IF AnyPatternMatches(delete_patterns, message_lower) THEN IntentResult("DELETE", 95)
  ELSE IF CompleteKeyword(message_lower) THEN IntentResult("COMPLETE", 80)
  ELSE IF CreateKeyword(message_lower) THEN IntentResult("CREATE", 80)
  ELSE IF ReadKeyword(message_lower) THEN IntentResult("READ", 80)
  ELSE IF UpdateKeyword(message_lower) THEN IntentResult("UPDATE", 80)
  ELSE IF DeleteKeyword(message_lower) THEN IntentResult("DELETE", 80)
  ELSE IntentResult("NONE", 50)

\* parse_intent without its `if not message` test
parse_intent_unguarded(message) == Classify(Strip(Lower(message)))

\* MessageParser.parse_intent (current_tasks is not used by it)
parse_intent(message) ==
  IF message = "" THEN IntentResult("NONE", 10) ELSE Classify(Strip(Lower(message)))

\* Python values that are no str: type is the class, truthy the value of
\* bool(message)
PyValue(type, truthy) == [type |-> type, truthy |-> truthy]

\* the try block of parse_intent for a message that is no str: `if not
\* message` returns for None, 0 and []; for any other value
\* message.lower() raises AttributeError
TryParseIntent(message) ==
  IF ~message.truthy THEN [raised |-> FALSE, intent |-> IntentResult("NONE", 10)]
  ELSE [raised |-> TRUE, intent |-> IntentResult("NONE", 0)]

\* the except block of parse_intent: "return a safe default"
ExceptParseIntent(attempt) ==
  IF attempt.raised THEN IntentResult("NONE", 10) ELSE attempt.intent

\* MessageParser.parse_intent for a message that is no str
parse_intent_value(message) == ExceptParseIntent(TryParseIntent(message))

\* groups[1] when the match has more than one group, groups[0] when it has
\* one (Python indexes from 0); <<>> when it has none
MentionedGroup(groups) ==
  IF Len(groups) > 1 THEN <<groups[2]>>
  ELSE IF Len(groups) = 1 THEN <<groups[1]>>
  ELSE <<>>

RECURSIVE ExtractFrom(_, _, _)
\* the loop of extract_task_title over create_patterns from index k
ExtractFrom(message, message_lower, k) ==
  IF k > Len(create_patterns) THEN Capitalize(StripQuotes(Strip(message)))
  ELSE LET match == Search(create_patterns[k], message_lower)
       IN IF Len(match) > 0
          THEN LET g == MentionedGroup(match[1].groups)
                   extracted_title == IF Len(g) > 0 THEN Strip(g[1]) ELSE Strip(message)
               IN Capitalize(StripQuotes(extracted_title))
          ELSE ExtractFrom(message, message_lower, k + 1)

\* MessageParser.extract_task_title
extract_task_title(message) ==
  IF message = "" THEN "" ELSE ExtractFrom(message, Strip(Lower(message)), 1)

\* Optional[...] values: None is the empty sequence, a value v is <<v>>
None == <<>>

Some(v) == <<v>>

RECURSIVE FirstTitleContaining(_, _, _)
\* `for task in tasks: if task_title.lower() in task['title'].lower(): return task`
FirstTitleContaining(tasks, i, task_title) ==
  IF i > Len(tasks) THEN None
  ELSE IF Contains(Lower(tasks[i].title), Lower(task_title)) THEN Some(tasks[i])
  ELSE FirstTitleContaining(tasks, i + 1, task_title)

\* the task title a search result mentions: the group, stripped of blanks
\* and quotes; <<>> when the pattern did not match or has no group
TitleOfMatch(match) ==
  IF Len(match) = 0 \/ Len(match[1].groups) = 0 THEN <<>>
  ELSE <<StripQuotes(Strip(MentionedGroup(match[1].groups)[1]))>>

RECURSIVE MentionedTitles(_, _, _)
\* the task titles the patterns from index k on mention in message_lower, in
\* the order of the patterns
MentionedTitles(patterns, k, message_lower) ==
  IF k > Len(patterns) THEN <<>>
  ELSE TitleOfMatch(Search(patterns[k], message_lower))
         \o MentionedTitles(patterns, k + 1, message_lower)

\* the words of the messages the parser is applied to on its own
ParserWords == {"Add", "finish", "show", "update", "delete", "tasks", "milk"}

MaxWords == 3

\* the sequences over S of length at most n
SeqsUpTo(S, n) == UNION {[1..k -> S] : k \in 0..n}

ParserMessages == {Join(ws) : ws \in SeqsUpTo(ParserWords, MaxWords)}

\* the titles the patterns of find_task_by_title mention in each of these
\* messages, computed once
MentionedInMessages ==
  [m \in ParserMessages |->
     MentionedTitles(complete_patterns \o update_patterns \o delete_patterns, 1, Lower(m))]

\* the titles the patterns of find_task_by_title mention in message
Mentioned(message) ==
  IF message \in DOMAIN MentionedInMessages THEN MentionedInMessages[message]
  ELSE MentionedTitles(complete_patterns \o update_patterns \o delete_patterns, 1,
                       Lower(message))

RECURSIVE FindByTitles(_, _, _)
\* the loop of find_task_by_title: the first task found for titles[j..]
FindByTitles(titles, j, tasks) ==
  IF j > Len(titles) THEN None
  ELSE IF FirstTitleContaining(tasks, 1, titles[j]) # None
  THEN FirstTitleContaining(tasks, 1, titles[j])
  ELSE FindByTitles(titles, j + 1, tasks)

\* MessageParser.find_task_by_title
find_task_by_title(message, tasks) ==
  IF message = "" \/ Len(tasks) = 0 THEN None
  ELSE FindByTitles(Mentioned(message), 1, tasks)

\* the positions of the tasks whose lower-cased title is in the lower-cased
\* message: `if task.title.lower() in message.lower()`
TitleHits(message_lower, tasks) ==
  {i \in 1..Len(tasks) : Contains(message_lower, Lower(tasks[i].title))}

\* the task at the least of the positions hits: the loop breaks at its first hit
FirstHit(tasks, hits) ==
  IF hits = {} THEN None ELSE Some(tasks[CHOOSE i \in hits : \A j \in hits : i <= j])

\* the lookup loop of _handle_complete_task, _handle_update_task and
\* _handle_delete_task: `for task in tasks: if ...: task_to_x = task; break`
FindTaskInMessage(message, tasks) == FirstHit(tasks, TitleHits(Lower(message), tasks))

(***************************************************************************)
(* Storage: the todos and users tables.  A table is the sequence of its    *)
(* rows in insertion order; a query returns rows in that order.  Time      *)
(* stamps (created_at, updated_at) are not part of the model.              *)
(***************************************************************************)
VARIABLES todos, users, nextId, nextUser, served, last, parsed, sessions, commits, auth

vars == <<todos, users, nextId, nextUser, served, last, parsed, sessions, commits, auth>>

\* default page of TodoService.get_todos_by_user
DefaultSkip == 0

DefaultLimit == 100

\* values uuid.uuid4() and registration give to users; UUID(s) parses s
\* exactly when s is one of them
UuidPool == <<"uuid-1", "uuid-2", "uuid-3", "uuid-4">>

UuidStrings == {UuidPool[i] : i \in 1..Len(UuidPool)}

\* UUID(user_id) inside try/except: None when user_id is not a UUID string
ParseUuid(user_id) == IF user_id \in UuidStrings THEN Some(user_id) ELSE None

\* schemas.todo.TodoCreate
TodoCreate(title, description, is_completed, priority, category, due_date) ==
  [title |-> title, description |-> description, is_completed |-> is_completed,
   priority |-> priority, category |-> category, due_date |-> due_date]

\* models.todo.Todo(**todo_data.model_dump(), user_id=user_id) with a fresh id
Todo(id, user_id, todo_data) ==
  [id |-> id, user_id |-> user_id, title |-> todo_data.title,
   description |-> todo_data.description, is_completed |-> todo_data.is_completed,
   priority |-> todo_data.priority, category |-> todo_data.category,
   due_date |-> todo_data.due_date]

\* TodoService.create_todo
create_todo(db, todo_data, user_id, new_id) == Append(db, Todo(new_id, user_id, todo_data))

\* select(Todo).where(Todo.user_id == user_id)
SelectByUser(db, user_id) == SelectSeq(db, LAMBDA t : t.user_id = user_id)

Min(a, b) == IF a < b THEN a ELSE b

\* TodoService.get_todos_by_user without filters: .offset(skip).limit(limit)
get_todos_by_user(db, user_id, skip, limit) ==
  LET rows == SelectByUser(db, user_id)
  IN SubSeq(rows, skip + 1, Min(Len(rows), skip + limit))

\* the same SELECT without the condition on Todo.user_id
RowsOf_any_owner(db, todo_id, user_id) == {i \in 1..Len(db) : db[i].id = todo_id}

\* select(Todo).where(Todo.id == todo_id, Todo.user_id == user_id): row indexes
RowsOf(db, todo_id, user_id) ==
  {i \in 1..Len(db) : db[i].id = todo_id /\ db[i].user_id = user_id}

\* TodoService.update_todo; todo_update holds the fields that were set
\* (model_dump(exclude_unset=True))
update_todo(db, todo_id, todo_update, user_id) ==
  LET rows == RowsOf(db, todo_id, user_id)
  IN IF rows = {} THEN [db |-> db, todo |-> None]
     ELSE LET i == CHOOSE r \in rows : TRUE
              db_todo == [f \in DOMAIN db[i] |->
                            IF f \in DOMAIN todo_update THEN todo_update[f] ELSE db[i][f]]
          IN [db |-> [db EXCEPT ![i] = db_todo], todo |-> Some(db_todo)]

\* result.scalar_one_or_none() of the SELECT of update_todo and
\* toggle_todo_completion: the row object the session works on
SelectTodo(db, todo_id, user_id) ==
  IF RowsOf(db, todo_id, user_id) = {} THEN None
  ELSE Some(db[CHOOSE r \in RowsOf(db, todo_id, user_id) : TRUE])

\* the attributes of the row object db_todo that differ, once values are set
\* on it, from what the SELECT loaded: at commit the unit of work compares
\* each attribute set with the loaded value and puts only those with a net
\* change in the UPDATE
NetChanges(db_todo, values) == {f \in DOMAIN values : values[f] # db_todo[f]}

\* db.add(db_todo); db.commit(): UPDATE todos SET <net changes> WHERE id =
\* db_todo.id, on the table as it is at the commit
FlushUpdate(db, db_todo, values) ==
  [i \in 1..Len(db) |->
     IF db[i].id = db_todo.id
     THEN [f \in DOMAIN db[i] |->
             IF f \in NetChanges(db_todo, values) THEN values[f] ELSE db[i][f]]
     ELSE db[i]]

\* toggle_todo_completion: db_todo.is_completed = not db_todo.is_completed
ToggleValues_completed(db_todo) == [is_completed |-> TRUE]

ToggleValues(db_todo) == [is_completed |-> ~db_todo.is_completed]

\* delete_todo that reports success and leaves the row in the table
delete_todo_kept(db, todo_id, user_id) == [db |-> db, ok |-> TRUE]

\* TodoService.delete_todo
delete_todo(db, todo_id, user_id) ==
  IF RowsOf(db, todo_id, user_id) = {} THEN [db |-> db, ok |-> FALSE]
  ELSE [db |-> SelectSeq(db, LAMBDA t : ~(t.id = todo_id /\ t.user_id = user_id)),
        ok |-> TRUE]

(***************************************************************************)
(* One request's view of the world: the tables, the fresh-id counters and  *)
(* the log of the storage calls the request has issued.  failAt is the     *)
(* ordinal of the storage call that raises (0: none does).                 *)
(***************************************************************************)
World(t, u, nid, nu, failAt) ==
  [todos |-> t, users |-> u, nextId |-> nid, nextUser |-> nu, failAt |-> failAt, log |-> <<>>]

\* the next storage call of the request raises
Faulty(w) == Len(w.log) + 1 = w.failAt

\* the request issues storage call op (on todo id, 0 when it has none)
Call(w, op, id) == [w EXCEPT !.log = Append(@, [op |-> op, id |-> id, ok |-> ~Faulty(w)])]

(***************************************************************************)
(* utils/emoji_utils.py and utils/taskie_responses.py                      *)
(***************************************************************************)
get_task_status_emoji(is_completed) == IF is_completed THEN "check" ELSE "memo"

get_priority_emoji(priority) ==
  LET p == Lower(priority)
  IN IF p = "high" THEN "red" ELSE IF p = "medium" THEN "yellow"
     ELSE IF p = "low" THEN "green" ELSE "white"

get_category_emoji(category) ==
  LET c == Lower(category)
  IN IF c = "work" THEN "briefcase" ELSE IF c = "personal" THEN "house"
     ELSE IF c = "study" THEN "books" ELSE IF c = "custom" THEN "gear" ELSE "clipboard"

\* dict.get(key, default)
DictGet(d, key, default) == IF key \in DOMAIN d THEN d[key] ELSE default

\* format_task_response: <<>> stands for the fixed "no tasks" sentence,
\* otherwise one numbered line per task under the heading
format_task_response(tasks) ==
  [i \in 1..Len(tasks) |->
     [ordinal |-> i,
      status |-> get_task_status_emoji(DictGet(tasks[i], "is_completed", FALSE)),
      title |-> DictGet(tasks[i], "title", "Untitled Task"),
      priority |-> get_priority_emoji(DictGet(tasks[i], "priority", "")),
      category |-> get_category_emoji(DictGet(tasks[i], "category", "")),
      due_date |-> DictGet(tasks[i], "due_date", None)]]

\* a reply: the sentence template (kind) and what is filled into it
Reply(kind, title, new_title, list) ==
  [kind |-> kind, title |-> title, new_title |-> new_title, list |-> list,
   total |-> 0, completed |-> 0]

CountReply(kind, total, completed) ==
  [kind |-> kind, title |-> "", new_title |-> "", list |-> <<>>,
   total |-> total, completed |-> completed]

Envelope(reply, action_performed, updated_tasks, success) ==
  [reply |-> reply, action_performed |-> action_performed,
   updated_tasks |-> updated_tasks, success |-> success]

\* the fixed apology of the endpoints' except blocks
ApologyEnvelope(tasks) == Envelope(Reply("apology", "", "", <<>>), "NONE", tasks, FALSE)

(***************************************************************************)
(* services/chat_service.py.  A handler gives [w, raised, reply]: the      *)
(* world after it, whether an exception left it, and its reply.  Where the *)
(* code binds a local and uses it several times, the rest of the function  *)
(* is an operator that takes the local as a parameter.                     *)
(***************************************************************************)
Return(w, reply) == [w |-> w, raised |-> FALSE, reply |-> reply]

Raise(w) == [w |-> w, raised |-> TRUE, reply |-> Reply("", "", "", <<>>)]

\* todos_to_dicts and the serialisation loops of the endpoints
TaskDict(t) ==
  [id |-> t.id, user_id |-> t.user_id, title |-> t.title,
   description |-> IF t.description = None THEN "" ELSE t.description[1],
   is_completed |-> t.is_completed,
   priority |-> IF t.priority = "" THEN "Medium" ELSE t.priority,
   category |-> IF t.category = None \/ t.category = Some("") THEN "Personal" ELSE t.category[1],
   due_date |-> t.due_date]

todos_to_dicts(rows) == [i \in 1..Len(rows) |-> TaskDict(rows[i])]

\* the {"title", "is_completed"} dicts the handlers hand to format_task_response
TitleDicts(rows) ==
  [i \in 1..Len(rows) |-> [title |-> rows[i].title, is_completed |-> rows[i].is_completed]]

\* the {"id", "title", "is_completed"} dicts of _handle_read_tasks
ReadDicts(rows) ==
  [i \in 1..Len(rows) |->
     [id |-> rows[i].id, title |-> rows[i].title, is_completed |-> rows[i].is_completed]]

\* what _handle_create_task stores for a title
NewTodoData(task_title) ==
  TodoCreate(task_title, Some(""), FALSE, "Medium", Some("Personal"), None)

\* _handle_create_task once the title is extracted
CreateTitled(w, user_uuid, task_title) ==
  IF task_title = "" THEN Return(w, Reply("create_unclear", "", "", <<>>))
  ELSE IF Faulty(w) THEN Raise(Call(w, "create_todo", w.nextId))
  ELSE Return([Call(w, "create_todo", w.nextId)
                 EXCEPT !.todos = create_todo(w.todos, NewTodoData(task_title),
                                              user_uuid[1], w.nextId),
                        !.nextId = @ + 1],
              Reply("created", task_title, "", <<>>))

\* ChatService._handle_create_task
handle_create_task(w, user_uuid, message) ==
  IF user_uuid = None THEN Return(w, Reply("refuse_create", "", "", <<>>))
  ELSE CreateTitled(w, user_uuid, extract_task_title(message))

\* _handle_read_tasks once the tasks are fetched
ReadFetched(w, tasks) ==
  IF Len(tasks) = 0 THEN Return(w, Reply("no_tasks", "", "", <<>>))
  ELSE Return(w, Reply("task_list", "", "", format_task_response(ReadDicts(tasks))))

\* _handle_read_tasks without the test of user_uuid: an unresolved user is
\* looked up in storage like any other
handle_read_tasks_unguarded(w, user_uuid) ==
  IF Faulty(w) THEN Raise(Call(w, "get_todos_by_user", 0))
  ELSE ReadFetched(Call(w, "get_todos_by_user", 0),
                   IF user_uuid = None THEN <<>>
                   ELSE get_todos_by_user(w.todos, user_uuid[1], DefaultSkip, DefaultLimit))

\* ChatService._handle_read_tasks
handle_read_tasks(w, user_uuid) ==
  IF user_uuid = None THEN Return(w, Reply("refuse_read", "", "", <<>>))
  ELSE IF Faulty(w) THEN Raise(Call(w, "get_todos_by_user", 0))
  ELSE ReadFetched(Call(w, "get_todos_by_user", 0),
                   get_todos_by_user(w.todos, user_uuid[1], DefaultSkip, DefaultLimit))

\* _handle_complete_task once the lookup loop has run
CompleteFound(w, user_uuid, tasks, task_to_complete) ==
  IF task_to_complete = None
  THEN Return(w, Reply("not_found", "", "", format_task_response(TitleDicts(tasks))))
  ELSE IF Faulty(w) THEN Raise(Call(w, "update_todo", task_to_complete[1].id))
  ELSE Return([Call(w, "update_todo", task_to_complete[1].id)
                 EXCEPT !.todos = update_todo(w.todos, task_to_complete[1].id,
                                              [is_completed |-> TRUE], user_uuid[1]).db],
              Reply("completed", task_to_complete[1].title, "", <<>>))

\* _handle_complete_task once the tasks are fetched
CompleteFetched(w, user_uuid, message, tasks) ==
  CompleteFound(w, user_uuid, tasks, FindTaskInMessage(message, tasks))

\* ChatService._handle_complete_task
handle_complete_task(w, user_uuid, message) ==
  IF user_uuid = None THEN Return(w, Reply("refuse_update", "", "", <<>>))
  ELSE IF Faulty(w) THEN Raise(Call(w, "get_todos_by_user", 0))
  ELSE CompleteFetched(Call(w, "get_todos_by_user", 0), user_uuid, message,
                       get_todos_by_user(w.todos, user_uuid[1], DefaultSkip, DefaultLimit))

\* index of the first "to" among words from index i, 0 when there is none
RECURSIVE FirstTo(_, _)
FirstTo(words, i) ==
  IF i > Len(words) THEN 0 ELSE IF words[i] = "to" THEN i ELSE FirstTo(words, i + 1)

\* the words after index to_index, joined; None when there are none
TitleAfter(words, to_index) ==
  IF to_index > 0 /\ to_index < Len(words)
  THEN Some(Join(SubSeq(words, to_index + 1, Len(words))))
  ELSE None

\* the words of the lower-cased message after the first "to"
WordsAfterTo(words) == TitleAfter(words, FirstTo(words, 1))

\* the "to" split of _handle_update_task: None, or the new title
NewTitleAfterTo(message) == WordsAfterTo(Split(Lower(message)))

\* _handle_update_task once update_todo has run: task_to_update is the row
\* object update_todo changed, so the reply quotes its title after the update
UpdateApplied(w, upd, new_title) ==
  Return([w EXCEPT !.todos = upd.db], Reply("updated", upd.todo[1].title, new_title, <<>>))

\* _handle_update_task once the task and the new title are known
UpdateFound(w, user_uuid, task_to_update, new_title) ==
  IF task_to_update = None \/ new_title = None \/ new_title = Some("")
  THEN Return(w, Reply("update_unclear", "", "", <<>>))
  ELSE IF Faulty(w) THEN Raise(Call(w, "update_todo", task_to_update[1].id))
  ELSE UpdateApplied(Call(w, "update_todo", task_to_update[1].id),
                      update_todo(w.todos, task_to_update[1].id, [title |-> new_title[1]],
                                  user_uuid[1]),
                      new_title[1])

\* ChatService._handle_update_task
handle_update_task(w, user_uuid, message) ==
  IF user_uuid = None THEN Return(w, Reply("refuse_update", "", "", <<>>))
  ELSE IF Faulty(w) THEN Raise(Call(w, "get_todos_by_user", 0))
  ELSE UpdateFound(Call(w, "get_todos_by_user", 0), user_uuid,
                   FindTaskInMessage(message,
                     get_todos_by_user(w.todos, user_uuid[1], DefaultSkip, DefaultLimit)),
                   NewTitleAfterTo(message))

\* _handle_delete_task once the lookup loop has run
DeleteFound(w, user_uuid, tasks, task_to_delete) ==
  IF task_to_delete = None
  THEN Return(w, Reply("not_found", "", "", format_task_response(TitleDicts(tasks))))
  ELSE IF Faulty(w) THEN Raise(Call(w, "delete_todo", task_to_delete[1].id))
  ELSE Return([Call(w, "delete_todo", task_to_delete[1].id)
                 EXCEPT !.todos = delete_todo(w.todos, task_to_delete[1].id, user_uuid[1]).db],
              Reply("deleted", task_to_delete[1].title, "", <<>>))

\* _handle_delete_task once the tasks are fetched
DeleteFetched(w, user_uuid, message, tasks) ==
  DeleteFound(w, user_uuid, tasks, FindTaskInMessage(message, tasks))

\* ChatService._handle_delete_task
handle_delete_task(w, user_uuid, message) ==
  IF user_uuid = None THEN Return(w, Reply("refuse_delete", "", "", <<>>))
  ELSE IF Faulty(w) THEN Raise(Call(w, "get_todos_by_user", 0))
  ELSE DeleteFetched(Call(w, "get_todos_by_user", 0), user_uuid, message,
                     get_todos_by_user(w.todos, user_uuid[1], DefaultSkip, DefaultLimit))

\* ChatService._is_greeting (the second definition in the class is the one in force)
is_greeting(message) ==
  Strip(Lower(message)) \in {"hi", "hello", "hey", "good morning", "good afternoon",
                             "good evening", "hi there", "hello there"}

\* number of completed tasks among task dicts
CompletedCount(tasks) == Cardinality({i \in 1..Len(tasks) : tasks[i].is_completed})

\* _handle_greeting once the tasks are fetched
GreetFetched(w, tasks) ==
  IF Len(tasks) = 0 THEN Return(w, Reply("greeting_no_tasks", "", "", <<>>))
  ELSE Return(w, CountReply("greeting_counts", Len(tasks), CompletedCount(tasks)))

\* ChatService._handle_greeting for a resolved user
handle_greeting(w, user_uuid) ==
  IF Faulty(w) THEN Raise(Call(w, "get_todos_by_user", 0))
  ELSE GreetFetched(Call(w, "get_todos_by_user", 0),
                    get_todos_by_user(w.todos, user_uuid[1], DefaultSkip, DefaultLimit))

ContainsAny(s, phrases) == \E ph \in phrases : Contains(s, ph)

\* the task-status answer of _answer_common_questions
StatusAnswer(total, completed) ==
  IF total = 0 THEN Reply("status_no_tasks", "", "", <<>>)
  ELSE IF completed = total THEN CountReply("status_all_done", total, total)
  ELSE CountReply("status_counts", total, completed)

\* the reply of _answer_common_questions for the lower-cased, stripped
\* message: None when no question is recognised
CommonReply(message_lower, current_tasks) ==
  IF ContainsAny(message_lower, {"how are you", "how do you do", "how's it going", "how are things"})
  THEN Some(Reply("how_are_you", "", "", <<>>))
  ELSE IF ContainsAny(message_lower, {"what can you do", "help", "what do you do", "commands", "features"})
  THEN Some(Reply("capabilities", "", "", <<>>))
  ELSE IF ContainsAny(message_lower, {"who are you", "what is your name", "what's your name", "introduce yourself"})
  THEN Some(Reply("identity", "", "", <<>>))
  ELSE IF ContainsAny(message_lower, {"thank you", "thanks", "thank you very much", "thanks a lot"})
  THEN Some(Reply("welcome", "", "", <<>>))
  ELSE IF ContainsAny(message_lower, {"status", "progress", "how am i doing", "how's my progress"})
  THEN Some(StatusAnswer(Len(current_tasks), CompletedCount(current_tasks)))
  ELSE None

\* an Optional reply made an Optional envelope
CommonEnvelope(reply, current_tasks) ==
  IF reply = None THEN None ELSE Some(Envelope(reply[1], "NONE", current_tasks, TRUE))

\* ChatService._answer_common_questions: None or an envelope
answer_common_questions(message, current_tasks) ==
  CommonEnvelope(CommonReply(Strip(Lower(message)), current_tasks), current_tasks)

\* ChatService._is_guidance_request
is_guidance_request(message) ==
  ContainsAny(Lower(message),
              {"suggest", "recommend", "advice", "tips", "help me organize", "how should",
               "what should", "guide", "guidance", "productivity", "better way", "improve",
               "assist", "motivate", "encourage"})

\* the sentence of _provide_guidance for the two counts
Guidance(total_count, completed_count) ==
  IF total_count = 0 THEN Reply("guidance_no_tasks", "", "", <<>>)
  ELSE IF completed_count = total_count THEN CountReply("guidance_all_done", total_count, completed_count)
  ELSE IF completed_count = 0 THEN CountReply("guidance_none_done", total_count, 0)
  ELSE CountReply("guidance_partial", total_count, completed_count)

\* ChatService._provide_guidance
provide_guidance(current_tasks) ==
  Envelope(Guidance(Len(current_tasks), CompletedCount(current_tasks)), "NONE", current_tasks, TRUE)

\* ChatService._handle_fallback_response; rnd is the outcome of random.choice
handle_fallback_response(current_tasks, rnd) ==
  Envelope(CountReply("fallback", rnd, 0), "NONE", current_tasks, TRUE)

\* the messages requests carry
ChatMessages ==
  {"Add buy milk", "Show my tasks", "Mark 'Buy milk' as completed",
   "Delete walk dog", "Delete buy groceries", "Change buy milk to walk dog",
   "hello", "This is not a valid task command"}

\* messages that no pattern and no keyword claims, and one that completes a
\* task
SmallTalkMessages ==
  {"hello", "thanks for the tips", "how am i doing", "any tips",
   "This is not a valid task command", "Mark 'Buy milk' as completed"}

\* MessageParser.parse_intent on the messages of the requests, computed once
ParsedIntents == [m \in ChatMessages \cup SmallTalkMessages \cup {""} |-> parse_intent(m)]

\* the call self.parser.parse_intent(message, tasks_for_processing)
Intent(message) ==
  IF message \in DOMAIN ParsedIntents THEN ParsedIntents[message] ELSE parse_intent(message)

\* what process_message gives its caller: the world after it, whether an
\* exception left it, and the envelope it returned
Returned(w, envelope) == [w |-> w, raised |-> FALSE, result |-> envelope]

Raised(w) == [w |-> w, raised |-> TRUE, result |-> Envelope(Reply("", "", "", <<>>), "", <<>>, FALSE)]

\* the action-specific handler of the CRUD branch
Dispatch(w, action, user_uuid, message) ==
  IF action = "CREATE" THEN handle_create_task(w, user_uuid, message)
  ELSE IF action = "READ" THEN handle_read_tasks(w, user_uuid)
  ELSE IF action = "COMPLETE" THEN handle_complete_task(w, user_uuid, message)
  ELSE IF action = "UPDATE" THEN handle_update_task(w, user_uuid, message)
  ELSE handle_delete_task(w, user_uuid, message)

\* "after doing a CRUD action, fetch updated tasks when possible": the tasks
\* of the envelope; a failure of the fetch is swallowed
FetchedAfter(w, user_uuid, tasks_for_processing) ==
  IF user_uuid # None /\ ~Faulty(w)
  THEN todos_to_dicts(get_todos_by_user(w.todos, user_uuid[1], DefaultSkip, DefaultLimit))
  ELSE tasks_for_processing

\* the CRUD branch of process_message once the handler h has run
AfterCrud(h, action, user_uuid, tasks_for_processing) ==
  IF h.raised THEN Raised(h.w)
  ELSE Returned(IF user_uuid # None THEN Call(h.w, "get_todos_by_user", 0) ELSE h.w,
                Envelope(h.reply, action, FetchedAfter(h.w, user_uuid, tasks_for_processing), TRUE))

\* a branch of process_message that sends the reply of handler h under action
AfterHandler(h, action, tasks_for_processing) ==
  IF h.raised THEN Raised(h.w)
  ELSE Returned(h.w, Envelope(h.reply, action, tasks_for_processing, TRUE))

\* `any(k in message_lower for k in ("show", "list", "view", "see")) and
\* "task" in message_lower`: the keyword-based read fallback applies
ReadFallbackApplies(message_lower) ==
  ContainsAny(message_lower, {"show", "list", "view", "see"}) /\ Contains(message_lower, "task")

\* the NONE branch of process_message after the greeting test and the
\* common questions
Fallbacks(w, user_uuid, message, message_lower, tasks_for_processing, rnd) ==
  IF ReadFallbackApplies(message_lower)
  THEN (IF user_uuid # None
        THEN AfterHandler(handle_read_tasks(w, user_uuid), "READ", tasks_for_processing)
        ELSE Returned(w, Envelope(Reply("no_tasks", "", "", <<>>), "READ",
                                  tasks_for_processing, TRUE)))
  ELSE IF is_guidance_request(message)
  THEN Returned(w, provide_guidance(tasks_for_processing))
  ELSE Returned(w, handle_fallback_response(tasks_for_processing, rnd))

\* the NONE branch with the guidance test ahead of the common questions
Questions_guidance_first(w, user_uuid, message, tasks_for_processing, rnd, common) ==
  IF is_guidance_request(message) THEN Returned(w, provide_guidance(tasks_for_processing))
  ELSE IF common # None THEN Returned(w, common[1])
  ELSE Fallbacks(w, user_uuid, message, Lower(message), tasks_for_processing, rnd)

\* the NONE branch from the common questions on
Questions(w, user_uuid, message, tasks_for_processing, rnd, common) ==
  IF common # None THEN Returned(w, common[1])
  ELSE Fallbacks(w, user_uuid, message, Lower(message), tasks_for_processing, rnd)

\* "if ambiguous or NONE": the test that sends a message to the NONE branch
\* (confidence_threshold = 0.5)
IsAmbiguous(intent) == intent.action = "NONE" \/ intent.confidence < 50

\* process_message once the intent is parsed
Classified(w, user_uuid, message, tasks_for_processing, rnd, intent) ==
  IF IsAmbiguous(intent)
  THEN IF is_greeting(message) /\ user_uuid # None
       THEN AfterHandler(handle_greeting(w, user_uuid), "NONE", tasks_for_processing)
       ELSE Questions(w, user_uuid, message, tasks_for_processing, rnd,
                      answer_common_questions(message, tasks_for_processing))
  ELSE AfterCrud(Dispatch(w, intent.action, user_uuid, message), intent.action, user_uuid,
                 tasks_for_processing)

\* "if current_tasks not provided, load from DB when possible": the tasks
\* to process; a failure of the fetch is swallowed
TasksForProcessing(w, user_uuid, current_tasks) ==
  IF Len(current_tasks) = 0 /\ user_uuid # None
  THEN (IF Faulty(w) THEN <<>>
        ELSE todos_to_dicts(get_todos_by_user(w.todos, user_uuid[1], DefaultSkip, DefaultLimit)))
  ELSE current_tasks

\* process_message once user_id is parsed
Resolved(w, user_uuid, message, current_tasks, rnd) ==
  Classified(IF Len(current_tasks) = 0 /\ user_uuid # None
             THEN Call(w, "get_todos_by_user", 0) ELSE w,
             user_uuid, message, TasksForProcessing(w, user_uuid, current_tasks), rnd,
             Intent(message))

\* ChatService.process_message (_process_with_db); rnd is the outcome of
\* random.choice in the general fallback
process_message(w, user_id, message, current_tasks, rnd) ==
  Resolved(w, ParseUuid(user_id), message, current_tasks, rnd)

(***************************************************************************)
(* api/chat.py.  An endpoint gives [w, status, result, current_tasks,      *)
(* owner, recon]: the HTTP status (500: an exception left the endpoint and *)
(* no envelope was sent), the envelope, the task list handed to            *)
(* process_message, the identity the request ran as, and the index in the  *)
(* log of the first storage call made after process_message returned.      *)
(***************************************************************************)
Response(w, status, result, current_tasks, owner, recon) ==
  [w |-> w, status |-> status, result |-> result, current_tasks |-> current_tasks,
   owner |-> owner, recon |-> recon]

\* what the client gets when an exception leaves the endpoint (HTTP 500)
ServerError == Envelope(Reply("internal_server_error", "", "", <<>>), "", <<>>, FALSE)

\* {task['id'] for task in tasks}
IdSet(tasks) == {tasks[i].id : i \in 1..Len(tasks)}

\* chat_endpoint once process_message r is over
ChatReplied(r, sub) ==
  IF r.raised THEN Response(r.w, 200, ApologyEnvelope(<<>>), <<>>, sub, Len(r.w.log) + 1)
  ELSE Response(r.w, 200, r.result, <<>>, sub, Len(r.w.log) + 1)

\* POST /chat/ (chat_endpoint) for a token whose subject is the UUID sub
chat_endpoint(w, sub, message, rnd) == ChatReplied(process_message(w, sub, message, <<>>, rnd), sub)

RECURSIVE SyncDeletions(_, _, _, _)
\* `for deleted_id in deleted_task_ids: TodoService.delete_todo(...)`, the
\* ids taken in the order of ids[i..]
SyncDeletions(w, ids, i, user_uuid) ==
  IF i > Len(ids) THEN [w |-> w, raised |-> FALSE]
  ELSE IF Faulty(w) THEN [w |-> Call(w, "delete_todo", ids[i]), raised |-> TRUE]
  ELSE SyncDeletions([Call(w, "delete_todo", ids[i])
                        EXCEPT !.todos = delete_todo(w.todos, ids[i], user_uuid).db],
                     ids, i + 1, user_uuid)

\* the tasks of current_tasks whose id is not in updated_task_ids
GoneTasks(current_tasks, updated_task_ids) ==
  SelectSeq(current_tasks, LAMBDA t : t.id \notin updated_task_ids)

\* the id of each task of a list
IdsOf(tasks) == [i \in 1..Len(tasks) |-> tasks[i].id]

\* a reconciliation that deletes every original id, not the difference
AllOriginalIds(current_tasks, updated_tasks) == IdsOf(current_tasks)

\* original_task_ids - updated_task_ids, listed in the order of current_tasks
DeletedTaskIds(current_tasks, updated_tasks) ==
  IdsOf(GoneTasks(current_tasks, IdSet(updated_tasks)))

\* process_chat_message once the deletions are synchronised
Synced(sync, result, current_tasks, sub, from) ==
  IF sync.raised
  THEN Response(sync.w, 200, ApologyEnvelope(current_tasks), current_tasks, sub, from)
  ELSE Response(sync.w, 200, result, current_tasks, sub, from)

\* process_chat_message once process_message r is over
Reconciled(r, current_tasks, sub) ==
  IF r.raised
  THEN Response(r.w, 200, ApologyEnvelope(current_tasks), current_tasks, sub, Len(r.w.log) + 1)
  ELSE IF r.result.success /\ r.result.action_performed \in {"DELETE", "COMPLETE"}
  THEN Synced(SyncDeletions(r.w, DeletedTaskIds(current_tasks, r.result.updated_tasks), 1, sub),
              r.result, current_tasks, sub, Len(r.w.log) + 1)
  ELSE Response(r.w, 200, r.result, current_tasks, sub, Len(r.w.log) + 1)

\* process_chat_message once the user's tasks are loaded
Loaded(w, sub, message, rnd, current_tasks) ==
  Reconciled(process_message(w, sub, message, current_tasks, rnd), current_tasks, sub)

\* POST /chat/process (process_chat_message) for a token whose subject is
\* the UUID sub
process_chat_message(w, sub, message, rnd) ==
  IF Faulty(w)
  THEN \* the except block reads current_tasks before it was ever assigned
       Response(Call(w, "select_todos", 0), 500, ServerError, <<>>, sub, 2)
  ELSE Loaded(Call(w, "select_todos", 0), sub, message, rnd,
              todos_to_dicts(SelectByUser(w.todos, sub)))

\* UserService.get_user_by_email
get_user_by_email(utab, email) ==
  LET normalized_email == Lower(Strip(email))
      rows == SelectSeq(utab, LAMBDA u : Lower(Strip(u.email)) = normalized_email)
  IN IF Len(rows) = 0 THEN None ELSE Some(rows[1])

\* process_chat_message_public, "try to parse as UUID and verify existence":
\* UserService has no get_user_by_id, so the lookup raises AttributeError
\* for a UUID, UUID() raises for anything else, and the except block leaves
\* user_uuid = None
LookupExistingUser(user_id) == None

\* the account a failed create_user leaves the endpoint with: the one found
\* by email, or a uuid4 of no account when the lookup finds none or raises
FoundOrFresh(w, existing_user) ==
  IF existing_user # None THEN [w |-> w, user_uuid |-> existing_user[1].id]
  ELSE [w |-> [w EXCEPT !.nextUser = @ + 1], user_uuid |-> UuidPool[w.nextUser]]

\* `existing_user = UserService.get_user_by_email(db, anonymous_email)` of
\* the except block
LookupByEmail(w, anonymous_email) ==
  FoundOrFresh(Call(w, "get_user_by_email", 0),
               IF Faulty(w) THEN None ELSE get_user_by_email(w.users, anonymous_email))

\* UserService.create_user for the anonymous account
CreateAnonymous(w, anonymous_email, normalized_email) ==
  IF Faulty(w) THEN LookupByEmail(Call(w, "create_user", 0), anonymous_email)
  ELSE IF \E i \in 1..Len(w.users) : w.users[i].email = normalized_email
  THEN \* IntegrityError: create_user looks the email up and raises 409
       LookupByEmail(Call(Call(w, "create_user", 0), "get_user_by_email", 0), anonymous_email)
  ELSE [w |-> [Call(w, "create_user", 0)
                 EXCEPT !.users = Append(@, [id |-> UuidPool[w.nextUser],
                                             email |-> normalized_email]),
                        !.nextUser = @ + 1],
        user_uuid |-> UuidPool[w.nextUser]]

\* the email of the anonymous account of user_id
AnonymousEmail(user_id) == "anonymous_" \o user_id \o "@temp.local"

\* process_chat_message_public, "create an anonymous user if needed"
ResolveAnonymousUser(w, user_id) ==
  CreateAnonymous(w, AnonymousEmail(user_id), Lower(Strip(AnonymousEmail(user_id))))

\* TodoCreate(...) of the save loop for a task dict
CreateFromDict(task_data) ==
  TodoCreate(task_data.title, Some(task_data.description), task_data.is_completed,
             task_data.priority, Some(task_data.category), task_data.due_date)

\* TodoUpdate(...) of the save loop for a task dict
UpdateFromDict(task_data) ==
  [title |-> task_data.title, description |-> Some(task_data.description),
   is_completed |-> task_data.is_completed, priority |-> task_data.priority,
   category |-> Some(task_data.category), due_date |-> task_data.due_date]

\* one turn of the save loop: the world after task_data is saved
SaveTask(w, task_data, original_task_ids, user_uuid) ==
  IF task_data.id \notin original_task_ids
  THEN [Call(w, "create_todo", w.nextId)
          EXCEPT !.todos = create_todo(w.todos, CreateFromDict(task_data), user_uuid, w.nextId),
                 !.nextId = @ + 1]
  ELSE [Call(w, "update_todo", task_data.id)
          EXCEPT !.todos = update_todo(w.todos, task_data.id, UpdateFromDict(task_data),
                                       user_uuid).db]

\* the storage call of one turn of the save loop, when it raises
SaveFails(w, task_data, original_task_ids) ==
  IF task_data.id \notin original_task_ids THEN Call(w, "create_todo", w.nextId)
  ELSE Call(w, "update_todo", task_data.id)

RECURSIVE SaveUpdatedTasks(_, _, _, _, _)
\* `for task_data in updated_tasks:` of process_chat_message_public: a task
\* whose id is not among the original ids is created, any other is updated
SaveUpdatedTasks(w, updated_tasks, i, original_task_ids, user_uuid) ==
  IF i > Len(updated_tasks) THEN [w |-> w, raised |-> FALSE]
  ELSE IF Faulty(w)
  THEN [w |-> SaveFails(w, updated_tasks[i], original_task_ids), raised |-> TRUE]
  ELSE SaveUpdatedTasks(SaveTask(w, updated_tasks[i], original_task_ids, user_uuid),
                        updated_tasks, i + 1, original_task_ids, user_uuid)

\* the deletions that follow the save loop
SyncAfterSave(saved, ids, user_uuid) ==
  IF saved.raised THEN saved ELSE SyncDeletions(saved.w, ids, 1, user_uuid)

\* process_chat_message_public once process_message r is over
PublicSaved(r, current_tasks, user_uuid) ==
  IF r.raised
  THEN Response(r.w, 200, ApologyEnvelope(<<>>), current_tasks, user_uuid, Len(r.w.log) + 1)
  ELSE IF r.result.success /\ r.result.action_performed # "NONE"
  THEN Response(SyncAfterSave(SaveUpdatedTasks(r.w, r.result.updated_tasks, 1,
                                               IdSet(current_tasks), user_uuid),
                              DeletedTaskIds(current_tasks, r.result.updated_tasks),
                              user_uuid).w,
                200, r.result, current_tasks, user_uuid, Len(r.w.log) + 1)
  ELSE Response(r.w, 200, r.result, current_tasks, user_uuid, Len(r.w.log) + 1)

\* process_chat_message_public once the tasks of the account are loaded
PublicLoaded(w, user_uuid, message, rnd, current_tasks) ==
  PublicSaved(process_message(w, user_uuid, message, current_tasks, rnd), current_tasks, user_uuid)

\* process_chat_message_public once the account is resolved
PublicResolved(res, message, rnd) ==
  PublicLoaded(Call(res.w, "select_todos", 0), res.user_uuid, message, rnd,
               IF Faulty(res.w) THEN <<>>
               ELSE todos_to_dicts(SelectByUser(res.w.todos, res.user_uuid)))

\* POST /chat/process_public (process_chat_message_public); body_user_id is
\* "" when the body has no user_id
process_chat_message_public(w, body_user_id, message, rnd) ==
  PublicResolved(ResolveAnonymousUser(w, IF body_user_id = "" THEN "anonymous" ELSE body_user_id),
                 message, rnd)

(***************************************************************************)
(* The chat system: requests arrive one after the other, each runs to      *)
(* completion.  last records the latest request and what its caller got.   *)
(***************************************************************************)
\* subjects of the tokens the two registered users hold
TokenSubjects == {"uuid-1", "uuid-2"}

\* user_id arguments of direct process_message calls: a registered user
\* and the identifier of tests/test_chat.py, which is no UUID
DirectUserIds == {"uuid-1", "test_user_123"}

\* user_id of a /chat/process_public body ("": none given)
BodyUserIds == {"", "uuid-1"}

\* current_tasks of tests/test_chat.py (one task that storage does not hold)
TestSnapshot ==
  << [id |-> 9001, user_id |-> "test_user_123", title |-> "Buy milk", description |-> "",
      is_completed |-> FALSE, priority |-> "Medium", category |-> "Personal",
      due_date |-> None] >>

Snapshots == {<<>>, TestSnapshot}

\* requests of one behaviour
MaxRequests == 2

\* the storage call of a request that raises is one of the first MaxFailAt
MaxFailAt == 6

FailPoints == 1..MaxFailAt

\* outcomes of random.choice(fallback_responses); it is drawn only on the
\* NONE branch
RandomChoices(message) == IF Intent(message).action = "NONE" THEN 1..3 ELSE {1}

\* tasks the two registered users created earlier: three of the first user
\* and one of the second
SeededTasks ==
  create_todo(create_todo(create_todo(create_todo(<<>>,
    NewTodoData("Buy milk"), "uuid-1", 1),
    NewTodoData("Walk dog"), "uuid-1", 2),
    NewTodoData("Walk dog"), "uuid-2", 3),
    NewTodoData("Read book"), "uuid-1", 4)

\* a user whose task list is one task longer than the default page
FullPage == [i \in 1..(DefaultLimit + 1) |-> Todo(i, "uuid-1", NewTodoData("Archive"))]

RegisteredUsers ==
  << [id |-> "uuid-1", email |-> "ann@example.com"],
     [id |-> "uuid-2", email |-> "bob@example.com"] >>

NoRequest ==
  [op |-> "none", user_id |-> "", owner |-> "", message |-> "",
   current_tasks |-> <<>>, raised |-> FALSE,
   result |-> Envelope(Reply("", "", "", <<>>), "", <<>>, FALSE), log |-> <<>>, recon |-> 1,
   before |-> <<>>]

NothingParsed ==
  [op |-> "none", message |-> "", value |-> PyValue("str", FALSE), tasks |-> <<>>,
   intent |-> IntentResult("NONE", 0), title |-> "", task |-> None]

\* the requests that run side by side, each with a database session of its
\* own (get_db)
Sessions == {"a", "b"}

\* a request that has not arrived: op is the operation, pc its position
\* (idle, loaded or checked, done), values the attributes it sets, loaded
\* the row object its SELECT gave it, seen the number of commits before its
\* SELECT, at the ordinal of its own commit, status the HTTP status, ok
\* whether the TodoService call returned a task or True, reply the kind of
\* the sentence a chat handler returned, token the bearer token it carries
Idle ==
  [op |-> "none", pc |-> "idle", user_id |-> "", todo_id |-> 0, email |-> "",
   values |-> <<>>, loaded |-> None, seen |-> 0, at |-> 0, status |-> 0, result |-> None,
   ok |-> FALSE, reply |-> "", token |-> ""]

NoSessions == [s \in Sessions |-> Idle]

\* the token_blacklist table (rows [token, expires_at]) and the clock, in
\* seconds
NoAuth == [blacklist |-> {}, now |-> 0]

\* the state in which no request was served yet and the todo table is t
Started(t) ==
  /\ todos = t
  /\ users = RegisteredUsers
  /\ nextId = Len(t) + 1
  /\ nextUser = 3
  /\ served = 0
  /\ last = NoRequest
  /\ parsed = NothingParsed
  /\ sessions = NoSessions
  /\ commits = <<>>
  /\ auth = NoAuth

Init == Started(<<>>) \/ Started(SeededTasks)

\* the tables and counters after a request that leaves the world as w
Commit(w) ==
  /\ todos' = w.todos
  /\ users' = w.users
  /\ nextId' = w.nextId
  /\ nextUser' = w.nextUser
  /\ served' = served + 1
  /\ UNCHANGED <<parsed, sessions, commits, auth>>

\* what a request leaves in last
Outcome(op, user_id, owner, message, current_tasks, raised, result, w, recon) ==
  /\ Commit(w)
  /\ last' = [op |-> op, user_id |-> user_id, owner |-> owner, message |-> message,
              current_tasks |-> current_tasks, raised |-> raised, result |-> result,
              log |-> w.log, recon |-> recon, before |-> todos]

\* a caller's direct ChatService.process_message call has returned r
Called(user_id, message, current_tasks, r) ==
  Outcome("process_message", user_id, user_id, message, current_tasks, r.raised, r.result,
          r.w, Len(r.w.log) + 1)

\* an endpoint has answered resp
Served(op, user_id, message, resp) ==
  Outcome(op, user_id, resp.owner, message, resp.current_tasks, resp.status = 500,
          resp.result, resp.w, resp.recon)

\* a caller invokes ChatService.process_message itself
DirectCall(user_id, message, current_tasks, failAt, rnd) ==
  Called(user_id, message, current_tasks,
         process_message(World(todos, users, nextId, nextUser, failAt),
                         user_id, message, current_tasks, rnd))

ProcessMessage ==
  /\ served < MaxRequests
  /\ \E user_id \in DirectUserIds, message \in ChatMessages \cup {""},
        current_tasks \in Snapshots :
       \E rnd \in RandomChoices(message) :
         DirectCall(user_id, message, current_tasks, 0, rnd)

\* POST /chat/
ChatEndpoint ==
  /\ served < MaxRequests
  /\ \E sub \in TokenSubjects, message \in ChatMessages :
       \E rnd \in RandomChoices(message) :
         Served("chat", sub, message,
                chat_endpoint(World(todos, users, nextId, nextUser, 0), sub, message, rnd))

\* POST /chat/process
ProcessChatMessage ==
  /\ served < MaxRequests
  /\ \E sub \in TokenSubjects, message \in ChatMessages :
       \E rnd \in RandomChoices(message) :
         Served("process", sub, message,
                process_chat_message(World(todos, users, nextId, nextUser, 0), sub, message, rnd))

\* POST /chat/process_public
ProcessChatMessagePublic ==
  /\ served < MaxRequests
  /\ \E body_user_id \in BodyUserIds, message \in ChatMessages :
       \E rnd \in RandomChoices(message) :
         Served("process_public", body_user_id, message,
                process_chat_message_public(World(todos, users, nextId, nextUser, 0),
                                            body_user_id, message, rnd))

Next == ProcessMessage \/ ChatEndpoint \/ ProcessChatMessage \/ ProcessChatMessagePublic

Spec == Init /\ [][Next]_vars

(***************************************************************************)
(* Storage failures: the first request of a behaviour, during which the    *)
(* failAt-th storage call raises.                                          *)
(***************************************************************************)
FailingProcessMessage ==
  /\ served = 0
  /\ \E user_id \in DirectUserIds, message \in ChatMessages \cup {""},
        current_tasks \in Snapshots, failAt \in FailPoints :
       \E rnd \in RandomChoices(message) :
         DirectCall(user_id, message, current_tasks, failAt, rnd)

FailingChatEndpoint ==
  /\ served = 0
  /\ \E sub \in TokenSubjects, message \in ChatMessages, failAt \in FailPoints :
       \E rnd \in RandomChoices(message) :
         Served("chat", sub, message,
                chat_endpoint(World(todos, users, nextId, nextUser, failAt), sub, message, rnd))

FailingProcessChatMessage ==
  /\ served = 0
  /\ \E sub \in TokenSubjects, message \in ChatMessages, failAt \in FailPoints :
       \E rnd \in RandomChoices(message) :
         Served("process", sub, message,
                process_chat_message(World(todos, users, nextId, nextUser, failAt),
                                     sub, message, rnd))

FailingProcessChatMessagePublic ==
  /\ served = 0
  /\ \E body_user_id \in BodyUserIds, message \in ChatMessages, failAt \in FailPoints :
       \E rnd \in RandomChoices(message) :
         Served("process_public", body_user_id, message,
                process_chat_message_public(World(todos, users, nextId, nextUser, failAt),
                                            body_user_id, message, rnd))

NextFaults ==
  \/ FailingProcessMessage
  \/ FailingChatEndpoint
  \/ FailingProcessChatMessage
  \/ FailingProcessChatMessagePublic

InitFaults == Init \/ Started(FullPage)

SpecFaults == InitFaults /\ [][NextFaults]_vars

(***************************************************************************)
(* The same requests for a user whose list is longer than the default page *)
(* of get_todos_by_user.                                                   *)
(***************************************************************************)
InitFullPage == Started(FullPage)

SpecFullPage == InitFullPage /\ [][Next]_vars

(***************************************************************************)
(* The same requests for a user whose last task, behind the default page,  *)
(* is the one the messages name.                                           *)
(***************************************************************************)
LongList == [FullPage EXCEPT ![DefaultLimit + 1].title = "Buy milk"]

InitLongList == Started(LongList)

SpecLongList == InitLongList /\ [][Next]_vars

(***************************************************************************)
(* Conversation: requests whose message is no task command.                *)
(***************************************************************************)
SmallTalkProcessMessage ==
  /\ served < MaxRequests
  /\ \E user_id \in DirectUserIds, message \in SmallTalkMessages \cup {""},
        current_tasks \in Snapshots :
       \E rnd \in RandomChoices(message) :
         DirectCall(user_id, message, current_tasks, 0, rnd)

SmallTalkChatEndpoint ==
  /\ served < MaxRequests
  /\ \E sub \in TokenSubjects, message \in SmallTalkMessages :
       \E rnd \in RandomChoices(message) :
         Served("chat", sub, message,
                chat_endpoint(World(todos, users, nextId, nextUser, 0), sub, message, rnd))

NextSmallTalk == SmallTalkProcessMessage \/ SmallTalkChatEndpoint

SpecSmallTalk == Init /\ [][NextSmallTalk]_vars

(***************************************************************************)
(* The todo endpoints and the chat handlers as requests that run side by   *)
(* side: a request SELECTs the row into its session, sets attributes on    *)
(* the row object and commits; other requests may commit in between.       *)
(***************************************************************************)
\* todo_update bodies of PUT /todos/{todo_id}
TodoUpdates ==
  {[title |-> "Buy milk"], [title |-> "Read book"], [title |-> ""],
   [is_completed |-> TRUE], [is_completed |-> FALSE], [priority |-> "High"]}

\* titles of the bodies of POST /todos
RestTitles == {"Pay rent", ""}

\* the task the requests are about, and a task of another user
RestTodoIds == {1, 3}

\* the tasks of SeededTasks with task 1 completed
SeededCompleted == update_todo(SeededTasks, 1, [is_completed |-> TRUE], "uuid-1").db

InitRest == Started(SeededTasks) \/ Started(SeededCompleted)

\* request s has run its SELECT for operation op; found is the row object
Selected(s, op, user_id, todo_id, found, values, missing) ==
  /\ sessions[s].pc = "idle"
  /\ sessions' = [sessions EXCEPT ![s] =
                    IF found = None
                    THEN [Idle EXCEPT !.op = op, !.pc = "done", !.user_id = user_id,
                                      !.todo_id = todo_id, !.seen = Len(commits),
                                      !.status = missing]
                    ELSE [Idle EXCEPT !.op = op, !.pc = "loaded", !.user_id = user_id,
                                      !.todo_id = found[1].id, !.values = values,
                                      !.loaded = found, !.seen = Len(commits)]]
  /\ UNCHANGED <<todos, users, nextId, nextUser, served, last, parsed, commits, auth>>

\* PUT /todos/{todo_id} up to the SELECT of TodoService.update_todo
UpdateTodoSelect(s) ==
  \E todo_id \in RestTodoIds, todo_update \in TodoUpdates :
    Selected(s, "update_todo", "uuid-1", todo_id, SelectTodo(todos, todo_id, "uuid-1"),
             todo_update, 404)

\* PATCH /todos/{todo_id}/toggle up to the SELECT of toggle_todo_completion
ToggleSelected(s, todo_id, found) ==
  Selected(s, "toggle_todo_completion", "uuid-1", todo_id, found,
           IF found = None THEN <<>> ELSE ToggleValues(found[1]), 404)

ToggleSelect(s) ==
  \E todo_id \in RestTodoIds : ToggleSelected(s, todo_id, SelectTodo(todos, todo_id, "uuid-1"))

\* a chat Complete message up to the lookup of _handle_complete_task, which
\* loads the user's rows into the session
ChatCompleteSelect(s) ==
  Selected(s, "handle_complete_task", "uuid-1", 0,
           FindTaskInMessage("Mark 'Buy milk' as completed",
                             get_todos_by_user(todos, "uuid-1", DefaultSkip, DefaultLimit)),
           [is_completed |-> TRUE], 200)

\* a chat Update message up to the lookup of _handle_update_task
ChatUpdateSelect(s) ==
  Selected(s, "handle_update_task", "uuid-1", 0,
           FindTaskInMessage("Change buy milk to walk dog",
                             get_todos_by_user(todos, "uuid-1", DefaultSkip, DefaultLimit)),
           [title |-> NewTitleAfterTo("Change buy milk to walk dog")[1]], 200)

\* the rest of update_todo and toggle_todo_completion: the commit and
\* db.refresh(db_todo)
Written(s, db) ==
  /\ todos' = db
  /\ commits' = Append(commits, s)
  /\ sessions' = [sessions EXCEPT ![s].pc = "done", ![s].status = 200,
                                  ![s].at = Len(commits) + 1,
                                  ![s].result = SelectTodo(db, sessions[s].todo_id,
                                                           sessions[s].user_id)]
  /\ UNCHANGED <<users, nextId, nextUser, served, last, parsed, auth>>

CommitUpdate(s) ==
  /\ sessions[s].pc = "loaded"
  /\ Written(s, FlushUpdate(todos, sessions[s].loaded[1], sessions[s].values))

\* POST /todos: TodoService.create_todo with the validated body
CreateTodo(s) ==
  /\ sessions[s].pc = "idle"
  /\ \E title \in RestTitles, priority \in {"Low", "Medium", "High"} :
       /\ todos' = create_todo(todos, TodoCreate(title, None, FALSE, priority, None, None),
                               "uuid-1", nextId)
       /\ sessions' = [sessions EXCEPT ![s] =
                         [Idle EXCEPT !.op = "create_todo", !.pc = "done",
                                      !.user_id = "uuid-1", !.todo_id = nextId,
                                      !.seen = Len(commits), !.at = Len(commits) + 1,
                                      !.status = 201]]
  /\ nextId' = nextId + 1
  /\ commits' = Append(commits, s)
  /\ UNCHANGED <<users, nextUser, served, last, parsed, auth>>

NextRest ==
  \E s \in Sessions :
    \/ UpdateTodoSelect(s)
    \/ ToggleSelect(s)
    \/ ChatCompleteSelect(s)
    \/ ChatUpdateSelect(s)
    \/ CommitUpdate(s)
    \/ CreateTodo(s)

SpecRest == InitRest /\ [][NextRest]_vars

(***************************************************************************)
(* Registration: POST /auth/register as two steps of a request, the lookup *)
(* of the email and the insert, between which other requests may run.      *)
(***************************************************************************)
\* emails of the registration bodies; the first belongs to a registered user
RegistrationEmails ==
  {"ann@example.com", "Ann@Example.com", "cat@example.com", "Cat@Example.com"}

\* UserService.create_user: the table after it and the exception that
\* leaves it ("" when it returns).  The unique constraint on users.email
\* makes db.commit() raise IntegrityError; the except block then looks the
\* email up and raises HTTPException(409), or re-raises
create_user(utab, email, new_id) ==
  IF \E i \in 1..Len(utab) : utab[i].email = Lower(Strip(email))
  THEN [users |-> utab, user |-> None,
        raised |-> IF get_user_by_email(utab, Lower(Strip(email))) # None
                   THEN "HTTPException(409)" ELSE "IntegrityError"]
  ELSE [users |-> Append(utab, [id |-> new_id, email |-> Lower(Strip(email))]),
        user |-> Some([id |-> new_id, email |-> Lower(Strip(email))]),
        raised |-> ""]

\* register_user from `try: user = UserService.create_user(db, user_data)`
\* on: `except Exception` catches whatever create_user raises, the
\* HTTPException(409) included, and raises HTTPException(500)
RegisterStatus(created) == IF created.raised # "" THEN 500 ELSE 201

\* register_user up to the lookup of the email: 409 when it is taken
RegisterCheck(s) ==
  /\ sessions[s].pc = "idle"
  /\ \E email \in RegistrationEmails :
       sessions' = [sessions EXCEPT ![s] =
                      IF get_user_by_email(users, email) # None
                      THEN [Idle EXCEPT !.op = "register_user", !.pc = "done",
                                        !.email = email, !.seen = Len(commits),
                                        !.status = 409]
                      ELSE [Idle EXCEPT !.op = "register_user", !.pc = "checked",
                                        !.email = email, !.seen = Len(commits)]]
  /\ UNCHANGED <<todos, users, nextId, nextUser, served, last, parsed, commits, auth>>

\* the rest of register_user once create_user is over
Registered(s, created) ==
  /\ users' = created.users
  /\ nextUser' = IF created.raised = "" THEN nextUser + 1 ELSE nextUser
  /\ commits' = IF created.raised = "" THEN Append(commits, s) ELSE commits
  /\ sessions' = [sessions EXCEPT ![s].pc = "done", ![s].status = RegisterStatus(created),
                                  ![s].at = Len(commits) + 1, ![s].result = created.user]
  /\ UNCHANGED <<todos, nextId, served, last, parsed, auth>>

RegisterCreate(s) ==
  /\ sessions[s].pc = "checked"
  /\ Registered(s, create_user(users, sessions[s].email, UuidPool[nextUser]))

NextRegister == \E s \in Sessions : RegisterCheck(s) \/ RegisterCreate(s)

SpecRegister == Init /\ [][NextRegister]_vars

(***************************************************************************)
(* The todo endpoints of two users and the chat handlers of the first, as  *)
(* requests that run side by side or one after the other.  A chat handler  *)
(* looks the task up in get_todos_by_user, then calls update_todo or       *)
(* delete_todo, which SELECTs the row again and commits.                   *)
(***************************************************************************)
\* the users whose tokens the requests carry
CrudUsers == {"uuid-1", "uuid-2"}

\* the task ids of the paths: a task of the first user and an id no task has
CrudTodoIds == {1, 7}

CrudSessions == {"a", "b", "c"}

\* todo_update bodies of PUT /todos/{todo_id}
CrudUpdates == {[title |-> "Read book"]}

\* the chat messages: each names a task of the first user
CrudMessages ==
  {"Mark 'Buy milk' as completed", "Change buy milk to walk dog", "Delete walk dog"}

InitCrud ==
  /\ todos = SeededTasks
  /\ users = RegisteredUsers
  /\ nextId = Len(SeededTasks) + 1
  /\ nextUser = 3
  /\ served = 0
  /\ last = NoRequest
  /\ parsed = NothingParsed
  /\ sessions = [s \in CrudSessions |-> Idle]
  /\ commits = <<>>
  /\ auth = NoAuth

\* TodoService.get_todo_by_id
get_todo_by_id(db, todo_id, user_id) == SelectTodo(db, todo_id, user_id)

\* request s is answered without a commit of its own
Answered(s, answer) ==
  /\ sessions' = [sessions EXCEPT ![s] = answer]
  /\ UNCHANGED <<todos, users, nextId, nextUser, served, last, parsed, commits, auth>>

\* GET /todos/{todo_id}
GetTodoFound(s, user_id, todo_id, todo) ==
  Answered(s, [Idle EXCEPT !.op = "get_todo", !.pc = "done", !.user_id = user_id,
                           !.todo_id = todo_id, !.seen = Len(commits), !.result = todo,
                           !.ok = (todo # None),
                           !.status = IF todo = None THEN 404 ELSE 200])

GetTodo(s) ==
  /\ sessions[s].pc = "idle"
  /\ \E user_id \in CrudUsers, todo_id \in CrudTodoIds :
       GetTodoFound(s, user_id, todo_id, get_todo_by_id(todos, todo_id, user_id))

\* PUT /todos/{todo_id} up to the SELECT of TodoService.update_todo
PutTodoSelect(s) ==
  \E user_id \in CrudUsers, todo_id \in CrudTodoIds, todo_update \in CrudUpdates :
    Selected(s, "update_todo", user_id, todo_id, SelectTodo(todos, todo_id, user_id),
             todo_update, 404)

\* PATCH /todos/{todo_id}/toggle up to the SELECT of toggle_todo_completion
PatchToggleSelected(s, user_id, todo_id, found) ==
  Selected(s, "toggle_todo_completion", user_id, todo_id, found,
           IF found = None THEN <<>> ELSE ToggleValues(found[1]), 404)

PatchToggleSelect(s) ==
  \E user_id \in CrudUsers, todo_id \in CrudTodoIds :
    PatchToggleSelected(s, user_id, todo_id, SelectTodo(todos, todo_id, user_id))

\* DELETE /todos/{todo_id} up to the SELECT of TodoService.delete_todo
DeleteTodoSelect(s) ==
  \E user_id \in CrudUsers, todo_id \in CrudTodoIds :
    Selected(s, "delete_todo", user_id, todo_id, SelectTodo(todos, todo_id, user_id),
             <<>>, 404)

\* the handler process_message dispatches a message to
HandlerOf(message) ==
  CASE Intent(message).action = "COMPLETE" -> "handle_complete_task"
    [] Intent(message).action = "UPDATE" -> "handle_update_task"
    [] Intent(message).action = "DELETE" -> "handle_delete_task"
    [] OTHER -> "none"

\* the TodoUpdate a handler builds
HandlerValues(message) ==
  CASE Intent(message).action = "COMPLETE" -> [is_completed |-> TRUE]
    [] Intent(message).action = "UPDATE" -> [title |-> NewTitleAfterTo(message)[1]]
    [] OTHER -> <<>>

\* the sentence a handler returns when it has not found the task, and the
\* one it returns after its TodoService call
MissingReply(op) == IF op = "handle_update_task" THEN "update_unclear" ELSE "not_found"

DoneReply(op) ==
  CASE op = "handle_complete_task" -> "completed"
    [] op = "handle_update_task" -> "updated"
    [] op = "handle_delete_task" -> "deleted"
    [] OTHER -> ""

\* a chat handler once its lookup loop over get_todos_by_user has run: the
\* rows are in the session, task is the one the message names
HandlerLookedUp(s, op, user_id, values, task) ==
  Answered(s, IF task = None
              THEN [Idle EXCEPT !.op = op, !.pc = "done", !.user_id = user_id,
                                !.seen = Len(commits), !.status = 200,
                                !.reply = MissingReply(op)]
              ELSE [Idle EXCEPT !.op = op, !.pc = "found", !.user_id = user_id,
                                !.todo_id = task[1].id, !.values = values,
                                !.loaded = task, !.seen = Len(commits)])

\* a chat Complete, Update or Delete message of the first user up to the
\* end of the handler's lookup loop
ChatLookup(s) ==
  /\ sessions[s].pc = "idle"
  /\ \E message \in CrudMessages :
       HandlerLookedUp(s, HandlerOf(message), "uuid-1", HandlerValues(message),
                       FindTaskInMessage(message,
                         get_todos_by_user(todos, "uuid-1", DefaultSkip, DefaultLimit)))

\* the handler's TodoService.update_todo / delete_todo call up to its
\* SELECT: when the row is gone the service returns None / False, which
\* the handler does not look at, and the handler returns its sentence
ChatServiceSelect(s) ==
  /\ sessions[s].pc = "found"
  /\ Answered(s, IF RowsOf(todos, sessions[s].todo_id, sessions[s].user_id) = {}
                 THEN [sessions[s] EXCEPT !.pc = "done", !.status = 200, !.ok = FALSE,
                                          !.reply = DoneReply(sessions[s].op)]
                 ELSE [sessions[s] EXCEPT !.pc = "loaded"])

\* db.commit() has succeeded and left the table as db
Committed(s, db, status) ==
  /\ todos' = db
  /\ commits' = Append(commits, s)
  /\ sessions' = [sessions EXCEPT ![s].pc = "done", ![s].status = status,
                                  ![s].at = Len(commits) + 1, ![s].ok = TRUE,
                                  ![s].reply = DoneReply(sessions[s].op),
                                  ![s].result = SelectTodo(db, sessions[s].todo_id,
                                                           sessions[s].user_id)]
  /\ UNCHANGED <<users, nextId, nextUser, served, last, parsed, auth>>

\* db.commit() of update_todo or toggle_todo_completion when another
\* request has deleted the row: the UPDATE matches no row, the unit of work
\* raises StaleDataError; a todo endpoint answers 500, process_message
\* catches it and returns the apology
Stale(s) ==
  Answered(s, [sessions[s] EXCEPT !.pc = "done", !.ok = FALSE,
                 !.status = IF DoneReply(sessions[s].op) = "" THEN 500 ELSE 200,
                 !.reply = IF DoneReply(sessions[s].op) = "" THEN "" ELSE "apology"])

\* the rest of update_todo, toggle_todo_completion and delete_todo after
\* the SELECT.  db.delete(db_todo); db.commit() issues DELETE by primary
\* key; a DELETE that matches no row is only warned about
CommitLoaded(s) ==
  /\ sessions[s].pc = "loaded"
  /\ IF sessions[s].op \in {"delete_todo", "handle_delete_task"}
     THEN Committed(s, delete_todo(todos, sessions[s].todo_id, sessions[s].user_id).db,
                    IF sessions[s].op = "delete_todo" THEN 204 ELSE 200)
     ELSE IF RowsOf(todos, sessions[s].todo_id, sessions[s].user_id) = {}
     THEN Stale(s)
     ELSE Committed(s, FlushUpdate(todos, sessions[s].loaded[1], sessions[s].values), 200)

\* POST /todos of the first user
PostTodo(s) ==
  /\ sessions[s].pc = "idle"
  /\ todos' = create_todo(todos, TodoCreate("Pay rent", None, FALSE, "Medium", None, None),
                          "uuid-1", nextId)
  /\ sessions' = [sessions EXCEPT ![s] =
                    [Idle EXCEPT !.op = "create_todo", !.pc = "done", !.user_id = "uuid-1",
                                 !.todo_id = nextId, !.seen = Len(commits),
                                 !.at = Len(commits) + 1, !.status = 201, !.ok = TRUE]]
  /\ nextId' = nextId + 1
  /\ commits' = Append(commits, s)
  /\ UNCHANGED <<users, nextUser, served, last, parsed, auth>>

NextCrud ==
  \E s \in CrudSessions :
    \/ GetTodo(s)
    \/ PutTodoSelect(s)
    \/ PatchToggleSelect(s)
    \/ DeleteTodoSelect(s)
    \/ ChatLookup(s)
    \/ ChatServiceSelect(s)
    \/ CommitLoaded(s)
    \/ PostTodo(s)

SpecCrud == InitCrud /\ [][NextCrud]_vars

(***************************************************************************)
(* Authentication: the bearer tokens of the two registered users, logout   *)
(* and the two dependencies that guard the endpoints, get_current_user     *)
(* (the todo and auth endpoints) and JWTBearer (the chat endpoints).       *)
(***************************************************************************)
\* the access tokens login has issued
AuthTokens == {"token-ann", "token-bob"}

\* the payload create_access_token has signed into a token; exp in seconds
TokenPayload(token) ==
  IF token = "token-ann"
  THEN [sub |-> "uuid-1", email |-> "ann@example.com", exp |-> 2]
  ELSE [sub |-> "uuid-2", email |-> "bob@example.com", exp |-> 3]

\* the clock stops here
MaxClock == 3

\* utils.token.verify_token and the jwt.decode calls of the chat endpoints:
\* the payload, None once the token has expired (exp < now)
verify_token(token, now) ==
  IF TokenPayload(token).exp < now THEN None ELSE Some(TokenPayload(token))

\* TokenBlacklistService.is_token_blacklisted: a token that does not decode
\* counts as blacklisted; otherwise a row of the token with expires_at > now
is_token_blacklisted(blacklist, token, now) ==
  IF verify_token(token, now) = None THEN TRUE
  ELSE \E row \in blacklist : row.token = token /\ row.expires_at > now

\* TokenBlacklistService.blacklist_token
blacklist_token(blacklist, token, expires_at) ==
  IF \E row \in blacklist : row.token = token THEN blacklist
  ELSE blacklist \cup {[token |-> token, expires_at |-> expires_at]}

\* auth_handler.get_current_user: the user, None when it raises 401
get_current_user(blacklist, utab, token, now) ==
  IF is_token_blacklisted(blacklist, token, now) THEN None
  ELSE IF verify_token(token, now) = None THEN None
  ELSE get_user_by_email(utab, verify_token(token, now)[1].email)

\* JWTBearer.verify_jwt
verify_jwt(token, now) == verify_token(token, now) # None

InitAuth ==
  /\ todos = SeededTasks
  /\ users = RegisteredUsers
  /\ nextId = Len(SeededTasks) + 1
  /\ nextUser = 3
  /\ served = 0
  /\ last = NoRequest
  /\ parsed = NothingParsed
  /\ sessions = [s \in CrudSessions |-> Idle]
  /\ commits = <<>>
  /\ auth = NoAuth

\* a second passes
Tick ==
  /\ auth.now < MaxClock
  /\ auth' = [auth EXCEPT !.now = @ + 1]
  /\ UNCHANGED <<todos, users, nextId, nextUser, served, last, parsed, sessions, commits>>

\* a request that carries token has been answered with status
Authenticated(op, token, status) ==
  [Idle EXCEPT !.op = op, !.pc = "done", !.token = token, !.seen = Len(commits),
               !.user_id = TokenPayload(token).sub, !.status = status]

\* the endpoints behind Depends(get_current_user): GET /todos,
\* GET /auth/profile, POST /auth/validate-token
GuardedEndpoints == {"get_todos", "get_user_profile", "validate_token"}

GuardedRequest(s) ==
  /\ sessions[s].pc = "idle"
  /\ \E token \in AuthTokens, op \in GuardedEndpoints :
       Answered(s, Authenticated(op, token,
                     IF get_current_user(auth.blacklist, users, token, auth.now) = None
                     THEN 401 ELSE 200))

\* POST /auth/logout: get_current_user, then blacklist_token with the exp
\* of the token
LogoutUser(s) ==
  /\ sessions[s].pc = "idle"
  /\ \E token \in AuthTokens :
       IF get_current_user(auth.blacklist, users, token, auth.now) = None
       THEN Answered(s, Authenticated("logout_user", token, 401))
       ELSE /\ auth' = [auth EXCEPT !.blacklist =
                          blacklist_token(@, token, TokenPayload(token).exp)]
            /\ commits' = Append(commits, s)
            /\ sessions' = [sessions EXCEPT ![s] =
                              [Authenticated("logout_user", token, 200)
                                 EXCEPT !.at = Len(commits) + 1, !.ok = TRUE]]
            /\ UNCHANGED <<todos, users, nextId, nextUser, served, last, parsed>>

\* what a chat endpoint answers to 'Show my tasks' once JWTBearer has let
\* the token through
ChatAnswer(op, sub) ==
  IF op = "chat"
  THEN chat_endpoint(World(todos, users, nextId, nextUser, 0), sub, "Show my tasks", 1)
  ELSE process_chat_message(World(todos, users, nextId, nextUser, 0), sub, "Show my tasks", 1)

\* POST /chat and POST /chat/process behind Depends(JWTBearer()): 403 when
\* verify_jwt fails, else the endpoint runs as the subject of the token
ChatRequest(s) ==
  /\ sessions[s].pc = "idle"
  /\ \E token \in AuthTokens, op \in {"chat", "process"} :
       Answered(s, IF ~verify_jwt(token, auth.now)
                   THEN Authenticated(op, token, 403)
                   ELSE [Authenticated(op, token,
                                       ChatAnswer(op, TokenPayload(token).sub).status)
                           EXCEPT !.reply = ChatAnswer(op, TokenPayload(token).sub).result.reply.kind])

NextAuth ==
  \/ Tick
  \/ \E s \in CrudSessions : GuardedRequest(s) \/ LogoutUser(s) \/ ChatRequest(s)

SpecAuth == InitAuth /\ [][NextAuth]_vars

(***************************************************************************)
(* The parser on its own: its functions applied to bounded messages and    *)
(* task lists.                                                             *)
(***************************************************************************)
ParserTitles == {"Milk", "Meat"}

MaxParserTasks == 2

\* the create messages of the tests
CreateExamples == {"Add buy groceries", "Add 'Buy groceries' to my list"}

\* what a caller may pass as message instead of a str: None, 0, 5, [], ['x']
OtherValues ==
  {PyValue("NoneType", FALSE), PyValue("int", FALSE), PyValue("int", TRUE),
   PyValue("list", FALSE), PyValue("list", TRUE)}

\* task lists; a task's id is its position
ParserTaskLists ==
  {[i \in 1..Len(ts) |-> [id |-> i, title |-> ts[i]]] : ts \in SeqsUpTo(ParserTitles, MaxParserTasks)}

\* the message is drawn first, then one parser function is applied to it
InitParser ==
  /\ todos = <<>>
  /\ users = RegisteredUsers
  /\ nextId = 1
  /\ nextUser = 3
  /\ served = 0
  /\ last = NoRequest
  /\ parsed \in {[NothingParsed EXCEPT !.op = "input", !.message = m] :
                   m \in ParserMessages \cup CreateExamples}
  /\ sessions = NoSessions
  /\ commits = <<>>
  /\ auth = NoAuth

Applied(result) ==
  /\ parsed.op = "input"
  /\ parsed' = result
  /\ UNCHANGED <<todos, users, nextId, nextUser, served, last, sessions, commits, auth>>

ParseIntent ==
  Applied([parsed EXCEPT !.op = "parse_intent", !.intent = parse_intent(parsed.message)])

\* parse_intent called with a value that is no str
ParseIntentOfValue ==
  \E v \in OtherValues :
    /\ parsed.message = ""
    /\ Applied([parsed EXCEPT !.op = "parse_intent_value", !.value = v,
                              !.intent = parse_intent_value(v)])

ExtractTaskTitle ==
  Applied([parsed EXCEPT !.op = "extract_task_title",
                         !.title = extract_task_title(parsed.message)])

FindTaskByTitle ==
  \E tasks \in ParserTaskLists :
    Applied([parsed EXCEPT !.op = "find_task_by_title", !.tasks = tasks,
                           !.task = find_task_by_title(parsed.message, tasks)])

\* the lookup loop of the Complete, Update and Delete handlers
HandlerLookup ==
  \E tasks \in ParserTaskLists :
    Applied([parsed EXCEPT !.op = "handler_lookup", !.tasks = tasks,
                           !.task = FindTaskInMessage(parsed.message, tasks)])

NextParser ==
  ParseIntent \/ ParseIntentOfValue \/ ExtractTaskTitle \/ FindTaskByTitle \/ HandlerLookup

SpecParser == InitParser /\ [][NextParser]_vars

(***************************************************************************)
(* Properties of the chat requests.                                        *)
(***************************************************************************)
\* the latest request is a chat invocation
IsRequest == last.op # "none"

\* the user's persisted tasks before the latest request, as task dicts
PersistedBefore == todos_to_dicts(SelectByUser(last.before, last.owner))

\* the task collection the latest request was processed against: the
\* current_tasks supplied with it, else the user's persisted tasks
Collection == IF Len(last.current_tasks) > 0 THEN last.current_tasks ELSE PersistedBefore

\* the rows a read for the owner of the latest request returns now and that
\* storage did not hold before the request
NewRowsRead ==
  SelectSeq(get_todos_by_user(todos, last.owner, DefaultSkip, DefaultLimit),
            LAMBDA t : t.id \notin IdSet(last.before))

\* the storage calls of the latest request made after process_message returned
ReconciliationCalls == SubSeq(last.log, last.recon, Len(last.log))

\* the refusals of the handlers for an unresolved user
Refusals == {"refuse_create", "refuse_read", "refuse_update", "refuse_delete"}

\* C1: every chat invocation with a non-empty message (process_message and
\* /chat/process) gives its caller the four-field envelope and lets no
\* exception through, whichever storage call fails; an envelope that
\* reports a failure is the fixed apology with action_performed NONE.
C1_EnvelopeOnEveryFailure ==
  (last.op \in {"process_message", "process"} /\ last.message # "")
    => /\ ~last.raised
       /\ last.result.action_performed \in TaskAction
       /\ ~last.result.success =>
            /\ last.result.reply.kind = "apology"
            /\ last.result.action_performed = "NONE"

\* C2: after a create message is processed through /chat, /chat/process or
\* /chat/process_public, storage holds exactly one more task than before,
\* with the extracted title, priority Medium, category Personal, not
\* completed and no due date, and a read that follows shows it exactly once.
C2_CreateRoundTrip ==
  (last.op \in {"chat", "process", "process_public"} /\ Intent(last.message).action = "CREATE")
    => /\ Len(todos) = Len(last.before) + 1
       /\ Len(NewRowsRead) = 1
       /\ NewRowsRead[1] = Todo(NewRowsRead[1].id, last.owner,
                                NewTodoData(extract_task_title(last.message)))

\* C3: after a successful DELETE or COMPLETE, /chat/process issues
\* delete_todo for exactly the ids of current_tasks that are missing from
\* updated_tasks, once each, and no create or update; storage then holds the
\* tasks it held before the request minus those ids, none recreated.
C3_DiffReconciliation ==
  (last.op = "process" /\ last.result.success
     /\ last.result.action_performed \in {"DELETE", "COMPLETE"})
    => /\ \A i \in 1..Len(ReconciliationCalls) : ReconciliationCalls[i].op = "delete_todo"
       /\ {ReconciliationCalls[i].id : i \in 1..Len(ReconciliationCalls)}
            = IdSet(last.current_tasks) \ IdSet(last.result.updated_tasks)
       /\ Len(ReconciliationCalls)
            = Cardinality(IdSet(last.current_tasks) \ IdSet(last.result.updated_tasks))
       /\ IdSet(todos)
            = IdSet(last.before) \ (IdSet(last.current_tasks) \ IdSet(last.result.updated_tasks))
       /\ Len(todos) = Cardinality(IdSet(todos))

\* C3's case: original ids {1, 2, 4}, updated ids {1, 4}: task 2 is gone,
\* the other tasks are still there
C3_MiddleTaskDeleted ==
  /\ last.op = "process"
  /\ last.result.action_performed = "DELETE"
  /\ IdSet(last.current_tasks) = {1, 2, 4}
  /\ IdSet(last.result.updated_tasks) = {1, 4}
  /\ Len(ReconciliationCalls) = 1
  /\ IdSet(todos) = {1, 3, 4}

\* C6: "Mark 'Buy milk' as completed" against a collection that holds a task
\* titled Buy milk gives COMPLETE and success, that task completed in
\* updated_tasks and every other task of the collection unchanged there.
C6_MarkCompleted ==
  (IsRequest /\ last.message = "Mark 'Buy milk' as completed"
     /\ \E i \in 1..Len(Collection) : Collection[i].title = "Buy milk")
    => /\ last.result.action_performed = "COMPLETE"
       /\ last.result.success
       /\ \E i \in 1..Len(last.result.updated_tasks) :
            /\ last.result.updated_tasks[i].title = "Buy milk"
            /\ last.result.updated_tasks[i].is_completed
       /\ \A i \in 1..Len(Collection) :
            Collection[i].title # "Buy milk"
              => \E j \in 1..Len(last.result.updated_tasks) :
                   last.result.updated_tasks[j] = Collection[i]

\* C7: 'Show my tasks' against a non-empty collection gives READ and
\* success, and the reply lists every task of the collection once, one
\* numbered line per task, whatever the size of the collection.
C7_ShowEveryTask ==
  (IsRequest /\ last.message = "Show my tasks" /\ Len(Collection) > 0)
    => /\ last.result.action_performed = "READ"
       /\ last.result.success
       /\ last.result.reply.kind = "task_list"
       /\ Len(last.result.reply.list) = Len(Collection)
       /\ \A i \in 1..Len(last.result.reply.list) :
            /\ last.result.reply.list[i].ordinal = i
            /\ i <= Len(Collection) => last.result.reply.list[i].title = Collection[i].title

\* C8: a delete message of a resolved user none of whose tasks has a title
\* occurring in the message gives the "couldn't find" reply, DELETE and
\* success, removes no task from storage, and updated_tasks is the user's
\* collection as it was before the call.
C8_DeleteNotFound ==
  (IsRequest /\ Intent(last.message).action = "DELETE" /\ ParseUuid(last.owner) # None
     /\ TitleHits(Lower(last.message), PersistedBefore) = {})
    => /\ last.result.reply.kind = "not_found"
       /\ last.result.action_performed = "DELETE"
       /\ last.result.success
       /\ todos = last.before
       /\ last.result.updated_tasks = PersistedBefore

GroupOrder == <<"COMPLETE", "CREATE", "READ", "UPDATE", "DELETE">>

\* the pattern list of each group
GroupPatterns ==
  <<complete_patterns, create_patterns, read_patterns, update_patterns, delete_patterns>>

\* the groups of which some pattern matches s
RegexGroups(s) == {k \in 1..5 : AnyPatternMatches(GroupPatterns[k], s)}

\* the groups of which some keyword is in s
KeywordGroups(s) ==
  {k \in 1..5 : \/ k = 1 /\ CompleteKeyword(s)
                \/ k = 2 /\ CreateKeyword(s)
                \/ k = 3 /\ ReadKeyword(s)
                \/ k = 4 /\ UpdateKeyword(s)
                \/ k = 5 /\ DeleteKeyword(s)}

\* the first group of a non-empty set of groups
FirstGroup(groups) == GroupOrder[CHOOSE k \in groups : \A j \in groups : k <= j]

\* parse_intent was applied to a non-empty message, of which groups are the
\* groups with a matching pattern and keywords the groups with a keyword
ParsedAs(groups, keywords) ==
  /\ groups # {} => parsed.intent = IntentResult(FirstGroup(groups), 95)
  /\ (groups = {} /\ keywords # {}) => parsed.intent = IntentResult(FirstGroup(keywords), 80)
  /\ (groups = {} /\ keywords = {}) => parsed.intent = IntentResult("NONE", 50)

\* C4: for a non-empty message parse_intent returns the first group, in the
\* order Complete, Create, Read, Update, Delete, of which some pattern
\* matches, with confidence 0.95, whichever later groups match too.
C4_FirstRegexGroupWins ==
  (parsed.op = "parse_intent" /\ parsed.message # ""
     /\ RegexGroups(Strip(Lower(parsed.message))) # {})
    => parsed.intent
         = IntentResult(FirstGroup(RegexGroups(Strip(Lower(parsed.message)))), 95)

\* C4's case: a Complete pattern and a Create pattern both match
C4_TwoGroupsMatch ==
  /\ parsed.op = "parse_intent"
  /\ parsed.message = "finish Add milk"
  /\ {1, 2} \subseteq RegexGroups(Strip(Lower(parsed.message)))
  /\ parsed.intent = IntentResult("COMPLETE", 95)

\* C5: when no pattern matches a non-empty message, parse_intent returns the
\* first group, in the same order, of which a keyword is in the lower-cased
\* message, with confidence 0.8, and (NONE, 0.5) when there is none; when a
\* pattern matches, the keywords decide nothing.
C5_KeywordFallback ==
  (parsed.op = "parse_intent" /\ parsed.message # "")
    => /\ RegexGroups(Strip(Lower(parsed.message))) = {}
            => ParsedAs({}, KeywordGroups(Strip(Lower(parsed.message))))
       /\ RegexGroups(Strip(Lower(parsed.message))) # {} => parsed.intent.confidence = 95

\* C5's case: no pattern matches, a Read keyword and a Complete keyword do
C5_TwoKeywordsMatch ==
  /\ parsed.op = "parse_intent"
  /\ parsed.message = "show finish"
  /\ RegexGroups(Strip(Lower(parsed.message))) = {}
  /\ KeywordGroups(Strip(Lower(parsed.message))) = {1, 3}
  /\ parsed.intent = IntentResult("COMPLETE", 80)

\* C10: find_task_by_title and the lookup loop of the handlers return the
\* first task, in the order of the collection, whose lower-cased title is in
\* the lower-cased message, and none when no task qualifies, when the
\* collection is empty or when the message is empty.
C10_FirstTitleInMessage ==
  parsed.op \in {"find_task_by_title", "handler_lookup"}
    => parsed.task = FirstHit(parsed.tasks, TitleHits(Lower(parsed.message), parsed.tasks))

(***************************************************************************)
(* Properties of the handlers.                                             *)
(***************************************************************************)
\* the user's persisted tasks before the latest request, as the lookup
\* loops see them
StoredBefore == SelectByUser(last.before, last.owner)

\* C11: for a Complete, Update or Delete message of a resolved user the
\* target is looked up among the user's persisted tasks, whatever snapshot
\* the caller supplied; when none of their titles is in the message the
\* reply is the "couldn't find" sentence followed by the rendered list of
\* these tasks, and storage is left as it was.
C11_NotFoundListsTasks ==
  (last.op \in {"process_message", "chat"} /\ ParseUuid(last.owner) # None
     /\ Intent(last.message).action \in {"COMPLETE", "UPDATE", "DELETE"}
     /\ TitleHits(Lower(last.message), StoredBefore) = {})
    => /\ last.result.reply.kind = "not_found"
       /\ last.result.reply.list = format_task_response(TitleDicts(StoredBefore))
       /\ todos = last.before

(***************************************************************************)
(* Properties of the branch for messages that are no task command.         *)
(***************************************************************************)
\* the storage calls that write
Mutations == {"create_todo", "update_todo", "delete_todo", "create_user"}

\* the latest request wrote nothing
NothingWritten ==
  /\ todos = last.before
  /\ \A i \in 1..Len(last.log) : last.log[i].op \notin Mutations

\* the reply of the latest request is that of the first branch that
\* applies, in the order greeting, common question, read keywords,
\* guidance, generic fallback; greeting tells whether the greeting applies
NoneBranchTaken(greeting, message_lower) ==
  IF greeting
  THEN /\ last.result.reply.kind \in {"greeting_no_tasks", "greeting_counts"}
       /\ last.result.action_performed = "NONE"
  ELSE IF CommonReply(Strip(message_lower), Collection) # None
  THEN /\ last.result.reply = CommonReply(Strip(message_lower), Collection)[1]
       /\ last.result.action_performed = "NONE"
  ELSE IF ContainsAny(message_lower, {"show", "list", "view", "see"})
            /\ Contains(message_lower, "task")
  THEN /\ last.result.reply.kind \in {"task_list", "no_tasks"}
       /\ last.result.action_performed = "READ"
  ELSE IF is_guidance_request(last.message)
  THEN /\ last.result.reply = Guidance(Len(Collection), CompletedCount(Collection))
       /\ last.result.action_performed = "NONE"
  ELSE /\ last.result.reply.kind = "fallback"
       /\ last.result.reply.total \in 1..3
       /\ last.result.action_performed = "NONE"

\* the latest request went through process_message and its message was
\* classified NONE or with a confidence under 0.5
Unclassified ==
  /\ last.op \in {"process_message", "chat"}
  /\ Intent(last.message).action = "NONE" \/ Intent(last.message).confidence < 50

\* what every branch for such a message returns
NoneEnvelope ==
  /\ ~last.raised
  /\ last.result.success
  /\ last.result.updated_tasks = Collection
  /\ NothingWritten

Retitled(rows, id, title) ==
  [i \in 1..Len(rows) |-> IF rows[i].id = id THEN [rows[i] EXCEPT !.title = title] ELSE rows[i]]

\* storage after an update message whose new title is new_title and of which
\* the user's tasks at the positions hits have their title in the message
TitleReplaced(rows, hits, new_title) ==
  IF hits = {} \/ new_title = None THEN last.before
  ELSE Retitled(last.before, FirstHit(rows, hits)[1].id, new_title[1])

\* C13: an update message of a resolved user replaces the title of the
\* first persisted task whose title is in the message by the words that
\* follow the first "to" of the lower-cased message, joined by single
\* spaces, and changes nothing else; without a "to", with nothing after it,
\* or with no such task, storage is left as it was.
C13_TitleAfterTo ==
  (last.op \in {"process_message", "chat"} /\ ParseUuid(last.owner) # None
     /\ Intent(last.message).action = "UPDATE")
    => todos = TitleReplaced(StoredBefore, TitleHits(Lower(last.message), StoredBefore),
                             NewTitleAfterTo(last.message))

(***************************************************************************)
(* Properties of the envelope after a dispatched action.                   *)
(***************************************************************************)
\* C14: after a Create, Read, Update, Complete or Delete message of a
\* resolved user, updated_tasks is the whole of the user's persisted tasks
\* as they are after the action, each once, whatever their number, and no
\* task of another user.
C14_UpdatedTasksAreAllStored ==
  (last.op \in {"process_message", "chat"} /\ ParseUuid(last.owner) # None /\ ~last.raised
     /\ Intent(last.message).action \in {"CREATE", "READ", "UPDATE", "COMPLETE", "DELETE"})
    => last.result.updated_tasks = todos_to_dicts(SelectByUser(todos, last.owner))

(***************************************************************************)
(* Properties of requests that run side by side.                           *)
(***************************************************************************)
\* request s has set attributes on a row and committed
HasWritten(s) == sessions[s].pc = "done" /\ sessions[s].loaded # None

\* C15: when two requests that update, toggle, complete or retitle the same
\* task of one user have both committed, whatever the order of their steps,
\* both were answered 200 and every field both of them set holds the value
\* set by the one that committed last.
C15_LastWriterWins ==
  \A s \in Sessions, t \in Sessions :
    (HasWritten(s) /\ HasWritten(t) /\ sessions[s].todo_id = sessions[t].todo_id
       /\ sessions[s].at < sessions[t].at)
      => /\ sessions[s].status = 200
         /\ sessions[t].status = 200
         /\ \A f \in DOMAIN sessions[s].values \cap DOMAIN sessions[t].values :
              SelectTodo(todos, sessions[t].todo_id, sessions[t].user_id)[1][f]
                = sessions[t].values[f]

\* the priorities of PriorityEnum
Priorities == {"Low", "Medium", "High"}

\* C16: whatever requests were served (POST and PUT /todos, toggles, chat
\* Complete and Update), every stored task has a non-empty title of at most
\* 255 characters and a priority that is Low, Medium or High.
C16_StoredTasksValid ==
  \A i \in 1..Len(todos) :
    /\ todos[i].title # ""
    /\ Len(todos[i].title) <= 255
    /\ todos[i].priority \in Priorities

\* request s toggled a task and no other request committed between its
\* SELECT and its commit
ToggledAlone(s) ==
  /\ sessions[s].op = "toggle_todo_completion"
  /\ sessions[s].pc = "done"
  /\ sessions[s].status = 200
  /\ sessions[s].at = sessions[s].seen + 1

\* request t toggled the task right after request s had toggled it
ToggledInTurn(s, t) ==
  /\ ToggledAlone(s)
  /\ ToggledAlone(t)
  /\ sessions[s].todo_id = sessions[t].todo_id
  /\ sessions[t].seen = sessions[s].at

\* C17: a toggle of an existing task by its owner returns the task with
\* is_completed flipped and every other field as it was, so the second of
\* two toggles made one after the other returns the task as it was before
\* the first.
C17_ToggleTwiceRestores ==
  /\ \A s \in Sessions :
       ToggledAlone(s)
         => sessions[s].result
              = Some([sessions[s].loaded[1] EXCEPT !.is_completed = ~@])
  /\ \A s \in Sessions, t \in Sessions :
       ToggledInTurn(s, t) => sessions[t].result = sessions[s].loaded

\* C17's case: a completed task toggled twice, pending in between
C17_CompletedToggledTwice ==
  /\ ToggledInTurn("a", "b")
  /\ sessions["a"].loaded[1].is_completed
  /\ ~sessions["a"].result[1].is_completed
  /\ sessions["b"].result[1].is_completed
  /\ todos = SeededCompleted

(***************************************************************************)
(* Properties of create messages and of messages that are empty or no str. *)
(***************************************************************************)
\* s ends with suffix
EndsWith(s, suffix) ==
  Len(s) >= Len(suffix) /\ SubSeq(s, Len(s) - Len(suffix) + 1, Len(s)) = suffix

\* message is "add <T>" or "add <T> to my list" with a non-empty T
IsAddMessage(message) ==
  /\ Len(message) > 4
  /\ Lower(SubSeq(message, 1, 4)) = "add "
  /\ ~EndsWith(message, " to my list") \/ Len(message) > 15

\* the T of such a message
AddedTitle(message) ==
  IF EndsWith(message, " to my list") THEN SubSeq(message, 5, Len(message) - 11)
  ELSE SubSeq(message, 5, Len(message))

\* s with its first letter upper-cased and the other characters as they are
FirstLetterUpper(s) == IF Len(s) = 0 THEN "" ELSE UpperChar(CharAt(s, 1)) \o Tail(s)

\* C18: a message "add <T>" or "add <T> to my list", T possibly in quotes,
\* is classified CREATE with a confidence of at least 0.8, and
\* extract_task_title returns T without the surrounding quotes and with its
\* first letter upper-cased, "to my list" not being part of it.
C18_AddedTitleExtracted ==
  IsAddMessage(parsed.message)
    => /\ parsed.op = "parse_intent"
            => parsed.intent.action = "CREATE" /\ parsed.intent.confidence >= 80
       /\ parsed.op = "extract_task_title"
            => parsed.title = FirstLetterUpper(StripQuotes(AddedTitle(parsed.message)))

\* C19: parse_intent returns (NONE, 0.1) for the empty message and for None,
\* and a call in which matching raises (a message that is no str) returns
\* (NONE, 0.1) as well.
C19_EmptyOrFailingIsNone ==
  /\ (parsed.op = "parse_intent" /\ parsed.message = "")
       => parsed.intent = IntentResult("NONE", 10)
  /\ parsed.op = "parse_intent_value" => parsed.intent = IntentResult("NONE", 10)

\* C19's case: parse_intent was given the empty message
C19_EmptyMessageParsed ==
  /\ parsed.op = "parse_intent"
  /\ parsed.message = ""
  /\ parsed.intent.action = "NONE"
  /\ parsed.intent.confidence = 10

(***************************************************************************)
(* Properties of registration.                                             *)
(***************************************************************************)
\* no two users have the same email once trimmed and lower-cased
EmailsUnique ==
  \A i \in 1..Len(users), j \in 1..Len(users) :
    Lower(Strip(users[i].email)) = Lower(Strip(users[j].email)) => i = j

\* C20: a registration whose email, trimmed and lower-cased, belongs to a
\* user is answered 409 and adds no user, whether the other registration
\* ran before it or between its lookup and its insert; a registration that
\* adds a user is answered 201; no two users share a normalized email.
C20_DuplicateEmailIs409 ==
  /\ EmailsUnique
  /\ \A s \in Sessions :
       (sessions[s].op = "register_user" /\ sessions[s].pc = "done")
         => sessions[s].status = (IF sessions[s].result = None THEN 409 ELSE 201)

(***************************************************************************)
(* Properties of the todo endpoints and of the chat handlers beside them.  *)
(***************************************************************************)
\* the operations of the todo endpoints on one task
TodoOps == {"get_todo", "update_todo", "toggle_todo_completion", "delete_todo"}

\* request d was DELETE /todos/{todo_id} and was answered 204
DeleteSucceeded(d) ==
  /\ sessions[d].op = "delete_todo"
  /\ sessions[d].pc = "done"
  /\ sessions[d].status = 204

\* request t arrived after request d had committed
ArrivedAfter(d, t) == sessions[t].pc # "idle" /\ sessions[t].seen >= sessions[d].at

\* the step is a DELETE /todos/{todo_id} of request s for which the table
\* holds no row of that id and user
DeletesMissing(s) ==
  /\ sessions[s].pc = "idle"
  /\ sessions'[s].op = "delete_todo"
  /\ RowsOf(todos, sessions'[s].todo_id, sessions'[s].user_id) = {}

\* C21: once DELETE /todos/{todo_id} was answered 204, no stored task has
\* that id in any later state (a task created afterwards gets another id),
\* and every get, update, toggle or delete of that id that arrives
\* afterwards, by either user, is answered 404; a delete of an id the
\* table does not hold for the user is answered 404 and leaves the table
\* as it was.
C21_DeletedStaysGone ==
  /\ [](\A d \in CrudSessions :
          DeleteSucceeded(d)
            => /\ \A i \in 1..Len(todos) : todos[i].id # sessions[d].todo_id
               /\ \A t \in CrudSessions :
                    (ArrivedAfter(d, t) /\ sessions[t].op \in TodoOps
                       /\ sessions[t].todo_id = sessions[d].todo_id)
                      => (sessions[t].pc = "done" /\ sessions[t].status = 404))
  /\ [][\A s \in CrudSessions :
          DeletesMissing(s)
            => (sessions'[s].pc = "done" /\ sessions'[s].status = 404 /\ todos' = todos)]_vars

\* C21's case: a task is deleted, then a task is created, then the second
\* user and the owner ask for the deleted id and get 404
C21_GetAfterDeleteAndCreate ==
  /\ DeleteSucceeded("a")
  /\ sessions["b"].op = "create_todo"
  /\ ArrivedAfter("a", "b")
  /\ sessions["c"].op = "get_todo"
  /\ sessions["c"].todo_id = sessions["a"].todo_id
  /\ sessions["c"].seen >= sessions["b"].at
  /\ sessions["c"].status = 404
  /\ Len(todos) = Len(SeededTasks)

\* request s names a task that another user owns
NotTheOwner(s) ==
  /\ sessions[s].op \in TodoOps
  /\ \E i \in 1..Len(SeededTasks) :
       /\ SeededTasks[i].id = sessions[s].todo_id
       /\ SeededTasks[i].user_id # sessions[s].user_id

\* the rows of user_id, in table order
OwnedBy(db, user_id) == SelectSeq(db, LAMBDA t : t.user_id = user_id)

\* C22: get_todo_by_id, update_todo, toggle_todo_completion and
\* delete_todo called for a task with the id of another user's task find
\* nothing (404, no task returned, no commit) in a step that leaves the
\* table as it was; no step of a request changes a row of another user;
\* get_todos_by_user(u) returns rows of u only, and so does a handler's
\* lookup in it.
C22_OwnerIsolation ==
  /\ [](/\ \A s \in CrudSessions :
            /\ NotTheOwner(s)
                 => /\ sessions[s].pc = "done"
                    /\ sessions[s].status = 404
                    /\ sessions[s].result = None
                    /\ sessions[s].loaded = None
                    /\ sessions[s].at = 0
            /\ sessions[s].loaded # None
                 => sessions[s].loaded[1].user_id = sessions[s].user_id
         /\ \A u \in CrudUsers :
              \A i \in 1..Len(get_todos_by_user(todos, u, DefaultSkip, DefaultLimit)) :
                get_todos_by_user(todos, u, DefaultSkip, DefaultLimit)[i].user_id = u)
  /\ [][\A s \in CrudSessions :
          sessions'[s] # sessions[s]
            => /\ \A u \in CrudUsers \ {sessions'[s].user_id} :
                    OwnedBy(todos', u) = OwnedBy(todos, u)
               /\ (sessions'[s].op \in TodoOps /\ sessions'[s].status = 404)
                    => todos' = todos]_vars

\* C22's case: the second user has tried to update and to delete task 1 of
\* the first user, who then reads it as it was
C22_OtherUsersTaskUntouched ==
  /\ NotTheOwner("a")
  /\ sessions["a"].op = "update_todo"
  /\ NotTheOwner("b")
  /\ sessions["b"].op = "delete_todo"
  /\ sessions["c"].op = "get_todo"
  /\ sessions["c"].user_id = "uuid-1"
  /\ sessions["c"].status = 200
  /\ sessions["c"].result = Some(SeededTasks[1])
  /\ sessions["a"].status = 404
  /\ sessions["b"].status = 404

\* the sentences with which a handler reports that it has completed,
\* updated or removed a task
SuccessReplies == {"completed", "updated", "deleted"}

\* C27: a chat Complete, Update or Delete request that was answered with
\* the sentence reporting success had its update_todo / delete_todo call
\* return a task / True, whatever other requests of the user did between
\* the handler's lookup and that call.
C27_SuccessReplyMeansWritten ==
  \A s \in CrudSessions :
    (sessions[s].pc = "done" /\ sessions[s].reply \in SuccessReplies) => sessions[s].ok

(***************************************************************************)
(* Properties of the identity a chat request runs as.                      *)
(***************************************************************************)
\* the account /chat/process_public resolves, in the present state, for a
\* body whose user_id is body_user_id
PublicIdentity(body_user_id) ==
  ResolveAnonymousUser(World(todos, users, nextId, nextUser, 0),
                       IF body_user_id = "" THEN "anonymous" ELSE body_user_id).user_uuid

\* the latest request left the rows of every user but the one it ran as
\* as they were
OthersUntouched ==
  \A i \in 1..Len(users) :
    users[i].id # last.owner
      => OwnedBy(todos, users[i].id) = OwnedBy(last.before, users[i].id)

LoggedOut(d) ==
  /\ sessions[d].op = "logout_user"
  /\ sessions[d].pc = "done"
  /\ sessions[d].status = 200

\* C24: once POST /auth/logout with a token was answered 200, every request
\* that carries the token afterwards and before the token expires, to a
\* todo or auth endpoint, to logout or to /chat and /chat/process, is
\* rejected (401 or 403).
C24_LoggedOutTokenRejected ==
  \A d \in CrudSessions, t \in CrudSessions :
    (LoggedOut(d) /\ ArrivedAfter(d, t) /\ sessions[t].token = sessions[d].token
       /\ auth.now < TokenPayload(sessions[d].token).exp)
      => sessions[t].status \in {401, 403}

(***************************************************************************)
(* Frame properties of the chat requests.                                  *)
(***************************************************************************)
\* the ids of the stored tasks of user_id in table db
StoredIds(db, user_id) == {db[i].id : i \in {j \in 1..Len(db) : db[j].user_id = user_id}}

\* C25: after a /chat/process request whose message is classified COMPLETE
\* the user's stored tasks have the ids they had before the request,
\* however many tasks the user has.
C25_CompleteKeepsEveryTask ==
  (IsRequest /\ last.op = "process" /\ ~last.raised
     /\ Intent(last.message).action = "COMPLETE")
    => StoredIds(todos, last.owner) = StoredIds(last.before, last.owner)

\* the storage calls that write to the todos table
TaskWrites == {"create_todo", "update_todo", "delete_todo"}

C28_ThresholdDecidesNothing ==
  parsed.op \in {"parse_intent", "parse_intent_value"}
    => /\ parsed.intent.action # "NONE" => parsed.intent.confidence \in {95, 80}
       /\ parsed.intent.confidence < 50 => parsed.intent.action = "NONE"
       /\ IsAmbiguous(parsed.intent) <=> parsed.intent.action = "NONE"

\* C28's case: an action found by a keyword only, with the lowest
\* confidence an action can have, goes to its handler
C28_KeywordIntentDispatched ==
  /\ parsed.op = "parse_intent"
  /\ parsed.message = "milk show"
  /\ parsed.intent = IntentResult("READ", 80)
  /\ ~IsAmbiguous(parsed.intent)

\* C29: a str message that parse_intent classifies NONE has none of show,
\* list, view, see in its lower-cased text, so the keyword-based read
\* fallback of the NONE branch does not apply to it.
C29_ReadFallbackUnreachable ==
  (parsed.op = "parse_intent" /\ parsed.intent.action = "NONE")
    => /\ ~ContainsAny(Lower(parsed.message), {"show", "list", "view", "see"})
       /\ ~ReadFallbackApplies(Lower(parsed.message))

\* C29's case: a message classified NONE that names tasks
C29_NoneMessageAboutTasks ==
  /\ parsed.op = "parse_intent"
  /\ parsed.message = "tasks milk"
  /\ parsed.intent = IntentResult("NONE", 50)
  /\ Contains(Lower(parsed.message), "task")
  /\ ~ReadFallbackApplies(Lower(parsed.message))

====
